---- MODULE Spec2Model ----
(***************************************************************************)
(* The sharded durable index-mutation queue of carbon-analytics:           *)
(* LocalIndexDataStore.LocalIndexDataQueue, the per-shard "reliable        *)
(* dequeue" built from two durable BigQueue instances (primary and         *)
(* secondary).                                                             *)
(*                                                                         *)
(* The durable state is the content of the two queues; it survives a       *)
(* crash.  The fields of the LocalIndexDataQueue object and the position   *)
(* of the consumer inside a call are volatile: a crash followed by a       *)
(* restart builds a new object over the same two queues.  Every call of    *)
(* the durable queue primitive is one atomic, durable step, so peekNext    *)
(* and the drain loop of endDequeue are several steps and a crash may fall *)
(* between any two of them.                                                *)
(***************************************************************************)
EXTENDS Integers, Sequences, FiniteSets, TLC

\* ------------------------------------------------------------------ bounds
\* Number of operations the producers enqueue in a behaviour.
MaxOps == 3
\* Number of crash/restart events in a behaviour.
MaxCrashes == 2
\* Number of peekNext calls one queue object serves in a behaviour (caps removeCount).
MaxPeeks == 5
\* Number of shard indices.
MaxShards == 2
\* Number of refreshLocalIndexShards calls in a behaviour, the constructor's included.
MaxRefreshes == 2
\* put and delete are called while fewer operations than this were enqueued.
MaxStoreOps == 2
\* Number of refreshLocalIndexShards calls in a row on one shard queue.
MaxReopens == 2
\* Number of failures of the durable queue primitive in a behaviour.
MaxFaults == 1
\* Shard indices for which the queue ids are compared.
MaxShardIndex == 25
\* Operations enqueued, and compactions run, in a behaviour that reaches the cleanup.
GCOps == 2
MaxGCs == 1
\* Two consumer threads: operations in primary, and peekNext calls begun.
RaceOps == 3
RacePeeks == 2

\* ------------------------------------------------------- program constants
QUEUE_CLEANUP_THRESHOLD == 1000

VARIABLES
    primaryQueue,                \* durable: bytes not yet taken for processing
    secondaryQueue,              \* durable: bytes taken but not confirmed
    secondaryQueueInitialCount,  \* field
    secondaryProcessedCount,     \* field
    removeCount,                 \* field
    gcCalls,                     \* history: gc() calls made on <<primary, secondary>>
    pc,                          \* position of the consumer thread inside a call
    data,                        \* local of peekNext
    i,                           \* local of queueDrain
    count,                       \* parameter of queueDrain
    loaded,                      \* two consumers: the value of a field the thread has read
                                 \*   and not yet used
    enqueued,                    \* history: number of operations enqueued so far
    returned,                    \* history: operations peekNext returned since the
                                 \*   latest startDequeue on this object
    unremoved,                   \* history: peekNext calls since the latest startDequeue on
                                 \*   this object whose dequeue threw after the append
    active,                      \* history: startDequeue was called on this object
                                 \*   and no endDequeue has completed since
    crashes,                     \* history: number of crash/restarts so far
    obs,                         \* history: what the consumer's latest call returned
    phase,                       \* position of the scripted caller (scenario specs)
    preCrash,                    \* history: `returned` as it stood at the latest crash
    delivered,                   \* history: every operation peekNext returned, in order
    other,                       \* two consumers: <<pc, data, i, count, loaded, phase>> of the
                                 \*   thread not running
    tid,                         \* two consumers: the thread that is running
    overlapped,                  \* history: a thread began a session while the other was in one
    refreshes,                   \* history: number of refreshLocalIndexShards calls
    pending,                     \* history: the bytes in secondary and primary at the first refresh
    indexDataQueues,             \* store field: shard index -> queue object, named by the number
                                 \*   of the refresh that created it (NoQueue: no entry)
    shardPrimary,                \* durable: the primary queue of each shard
    openInstances,               \* the durable-queue instances that are open
    localShards,                 \* what indexer.getLocalShards() returned last
    spc,                         \* position of the caller inside refreshLocalIndexShards
    sobs,                        \* history: the latest call on the store and its input
    closeAttempted,              \* history: instances the latest closeQueues called close on
    closeFailed,                 \* history: shards whose queue.close() threw in the latest closeQueues
    faults,                      \* history: the primitive queue calls that failed so far
    thrown,                      \* history: the latest exception a call threw to its caller
    clickedElement,              \* table form: the table model <<name, store, attributeList,
                                 \*   annotationList, annotationListObjects>>
    attributeDiv,                \* table form: <<value of .attr-name, value of .attr-type>> of
                                 \*   each li of #attribute-div
    attrNav,                     \* table form: the anchors in .attr-nav of each li, in order
    formOpen,                    \* table form: the form console holds the form
    disableContainer,            \* table form: design view and toggle button carry disableContainer
    fobs                         \* history: the latest handler of the form and its outcome

progVars == <<primaryQueue, secondaryQueue, secondaryQueueInitialCount,
              secondaryProcessedCount, removeCount>>
fieldVars == <<secondaryQueueInitialCount, secondaryProcessedCount, removeCount>>
coreVars == <<primaryQueue, secondaryQueue, secondaryQueueInitialCount,
              secondaryProcessedCount, removeCount, gcCalls, pc, data, i, count, loaded,
              enqueued, returned, unremoved, active, crashes, obs>>
scriptVars == <<phase, preCrash>>
consumerVars == <<delivered, other, tid, overlapped>>
refreshVars == <<refreshes, pending>>
storeVars == <<indexDataQueues, shardPrimary, openInstances, localShards,
               spc, sobs, closeAttempted, closeFailed>>
faultVars == <<faults, thrown>>
formVars == <<clickedElement, attributeDiv, attrNav, formOpen, disableContainer, fobs>>
extVars == <<consumerVars, refreshVars, storeVars, faultVars, formVars>>
vars == <<primaryQueue, secondaryQueue, secondaryQueueInitialCount,
          secondaryProcessedCount, removeCount, gcCalls, pc, data, i, count, loaded,
          enqueued, returned, unremoved, active, crashes, obs, phase, preCrash,
          delivered, other, tid, overlapped, refreshes, pending,
          indexDataQueues, shardPrimary, openInstances, localShards,
          spc, sobs, closeAttempted, closeFailed, faults, thrown,
          clickedElement, attributeDiv, attrNav, formOpen, disableContainer, fobs>>

\* ------------------------------------------------------------- helpers
Range(s) == {s[k] : k \in 1..Len(s)}

Max(a, b) == IF a >= b THEN a ELSE b

\* s without its first n elements
Drop(s, n) == IF n >= Len(s) THEN <<>> ELSE SubSeq(s, n + 1, Len(s))

NULL == <<"null">>

\* ------------------------------------------- IndexOperation and its bytes
\* An IndexOperation is identified by its position in the order of enqueue.
IndexOperation(n) == [id |-> n]

\* IndexOperation.getBytes: the serialized form of the object.
getBytes(indexOp) == <<"ser", indexOp.id>>

\* Whether bytes are a well-formed serialized IndexOperation.
Decodable(b) == Len(b) = 2 /\ b[1] = "ser"

\* IndexOperation.fromBytes, on decodable bytes.
fromBytes(b) == [id |-> b[2]]

\* ------------------------------------ the durable queue primitive (IBigQueue)
BQ_enqueue(q, b) == Append(q, b)
BQ_dequeue(q) == IF q = <<>> THEN q ELSE Tail(q)
BQ_peek(q) == IF q = <<>> THEN NULL ELSE Head(q)
BQ_size(q) == Len(q)
BQ_isEmpty(q) == Len(q) = 0
BQ_removeAll(q) == <<>>
\* Mutant of BQ_gc: the compaction also drops the entry at the head.
BQ_gc_dropsHead(q) == IF q = <<>> THEN q ELSE Tail(q)
\* gc reclaims the space of removed entries; the content is unchanged.
BQ_gc(q) == q

\* ------------------------------------------------------------------ Init
\* <<kind, cause, operation>> of an exception thrown to a caller; this value
\* as long as no call has thrown.
NoException == <<"none", "none", "none">>

\* The shard indices of the model.
Shards == 1..MaxShards

\* indexDataQueues.get(shardIndex) = null
NoQueue == 0

\* No table form: the design view of the editor is not part of the behaviour.
NoForm ==
    /\ clickedElement = <<<<>>, <<"undefined", {}>>, <<>>, <<>>, <<>>>>
    /\ attributeDiv = <<>>
    /\ attrNav = <<>>
    /\ formOpen = FALSE
    /\ disableContainer = FALSE
    /\ fobs = <<"none", "">>

\* One shard queue looked at on its own: one consumer thread, no refresh, and
\* no store around the queue.
NoStore ==
    /\ delivered = <<>>
    /\ other = <<"idle", NULL, 0, 0, 0, "out">>
    /\ tid = 1
    /\ overlapped = FALSE
    /\ refreshes = 0
    /\ pending = <<>>
    /\ indexDataQueues = [s \in Shards |-> NoQueue]
    /\ shardPrimary = [s \in Shards |-> <<>>]
    /\ openInstances = {}
    /\ localShards = {}
    /\ spc = "idle"
    /\ sobs = <<"none">>
    /\ closeAttempted = {}
    /\ closeFailed = {}
    /\ faults = <<>>
    /\ thrown = NoException

\* new LocalIndexDataQueue(shardIndex) over two new, empty durable queues.
Init ==
    /\ primaryQueue = <<>>
    /\ secondaryQueue = <<>>
    /\ secondaryQueueInitialCount = 0
    /\ secondaryProcessedCount = 0
    /\ removeCount = 0
    /\ gcCalls = <<0, 0>>
    /\ pc = "idle"
    /\ data = NULL
    /\ i = 0
    /\ count = 0
    /\ loaded = 0
    /\ enqueued = 0
    /\ returned = <<>>
    /\ unremoved = 0
    /\ active = FALSE
    /\ crashes = 0
    /\ obs = <<"none">>
    /\ phase = "free"
    /\ preCrash = <<>>
    /\ NoStore
    /\ NoForm

\* --------------------------------------------------------------- actions
\* Mutant of enqueue: the call also counts towards the cleanup counter.
enqueue_countsRemove ==
    /\ enqueued < MaxOps
    /\ primaryQueue' = BQ_enqueue(primaryQueue, getBytes(IndexOperation(enqueued + 1)))
    /\ enqueued' = enqueued + 1
    /\ removeCount' = removeCount + 1
    /\ gcCalls' = gcCalls
    /\ UNCHANGED <<secondaryQueue, secondaryQueueInitialCount, secondaryProcessedCount,
                   pc, data, i, count, loaded, returned, unremoved, active, crashes, obs>>

\* enqueue(indexOp), called by a producer: one append to primary.
enqueue ==
    /\ enqueued < MaxOps
    /\ primaryQueue' = BQ_enqueue(primaryQueue, getBytes(IndexOperation(enqueued + 1)))
    /\ enqueued' = enqueued + 1
    /\ UNCHANGED <<secondaryQueue, fieldVars, gcCalls, pc, data, i, count, loaded, returned, unremoved, active,
                   crashes, obs>>

\* Mutant of startDequeue: the backlog left in secondary is not counted.
startDequeue_noSnapshot ==
    /\ pc = "idle"
    /\ secondaryProcessedCount' = 0
    /\ secondaryQueueInitialCount' = 0
    /\ returned' = <<>>
    /\ unremoved' = 0
    /\ active' = TRUE
    /\ obs' = <<"startDequeue">>
    /\ UNCHANGED <<primaryQueue, secondaryQueue, removeCount, gcCalls, pc, data, i, count, loaded,
                   enqueued, crashes>>

\* startDequeue()
startDequeue ==
    /\ pc = "idle"
    /\ secondaryProcessedCount' = 0
    /\ secondaryQueueInitialCount' = BQ_size(secondaryQueue)
    /\ returned' = <<>>
    /\ unremoved' = 0
    /\ active' = TRUE
    /\ obs' = <<"startDequeue">>
    /\ UNCHANGED <<primaryQueue, secondaryQueue, removeCount, gcCalls, pc, data, i, count, loaded,
                   enqueued, crashes>>

\* Mutant of endDequeue_removeAll: the session counter is reset when the
\* session ends.
endDequeue_removeAll_resetCount ==
    /\ pc = "idle"
    /\ secondaryProcessedCount >= BQ_size(secondaryQueue)
    /\ secondaryQueue' = BQ_removeAll(secondaryQueue)
    /\ secondaryProcessedCount' = 0
    /\ active' = FALSE
    /\ obs' = <<"endDequeue", secondaryQueue>>
    /\ UNCHANGED <<primaryQueue, secondaryQueueInitialCount, removeCount, gcCalls, pc, data, i, count, loaded,
                   enqueued, returned, unremoved, crashes>>

\* Mutant of endDequeue_removeAll: only the head of secondary is removed.
endDequeue_removeAll_dequeueOne ==
    /\ pc = "idle"
    /\ secondaryProcessedCount >= BQ_size(secondaryQueue)
    /\ secondaryQueue' = BQ_dequeue(secondaryQueue)
    /\ active' = FALSE
    /\ obs' = <<"endDequeue", secondaryQueue>>
    /\ UNCHANGED <<primaryQueue, fieldVars, gcCalls, pc, data, i, count, loaded, enqueued, returned, unremoved, crashes>>

\* queueDrain(secondaryQueue, secondaryProcessedCount), count >= queueSize:
\* removeAll, and endDequeue returns.
endDequeue_removeAll ==
    /\ pc = "idle"
    /\ secondaryProcessedCount >= BQ_size(secondaryQueue)
    /\ secondaryQueue' = BQ_removeAll(secondaryQueue)
    /\ active' = FALSE
    /\ obs' = <<"endDequeue", secondaryQueue>>
    /\ UNCHANGED <<primaryQueue, fieldVars, gcCalls, pc, data, i, count, loaded, enqueued, returned, unremoved, crashes>>

\* queueDrain, count < queueSize with count = 0: the loop body never runs.
endDequeue_nothing ==
    /\ pc = "idle"
    /\ secondaryProcessedCount < BQ_size(secondaryQueue)
    /\ secondaryProcessedCount = 0
    /\ active' = FALSE
    /\ obs' = <<"endDequeue", secondaryQueue>>
    /\ UNCHANGED <<primaryQueue, secondaryQueue, fieldVars, gcCalls, pc, data, i, count, loaded, enqueued,
                   returned, unremoved, crashes>>

\* queueDrain, count < queueSize: the loop is entered.
endDequeue_begin ==
    /\ pc = "idle"
    /\ secondaryProcessedCount < BQ_size(secondaryQueue)
    /\ secondaryProcessedCount > 0
    /\ pc' = "drain"
    /\ count' = secondaryProcessedCount
    /\ i' = 0
    /\ obs' = <<"endDequeue", secondaryQueue>>
    /\ UNCHANGED <<primaryQueue, secondaryQueue, fieldVars, gcCalls, data, loaded, enqueued,
                   returned, unremoved, active, crashes>>

\* Mutant of endDequeue_dequeue: the loop runs while i <= count.
endDequeue_dequeue_offByOne ==
    /\ pc = "drain"
    /\ i <= count
    /\ secondaryQueue' = BQ_dequeue(secondaryQueue)
    /\ i' = i + 1
    /\ pc' = IF i + 1 <= count THEN "drain" ELSE "idle"
    /\ active' = IF i + 1 <= count THEN active ELSE FALSE
    /\ UNCHANGED <<primaryQueue, fieldVars, gcCalls, data, count, loaded, enqueued, returned, unremoved,
                   crashes, obs>>

\* One iteration of the loop of queueDrain: queue.dequeue(); i++.  count is
\* the parameter, the value secondaryProcessedCount had when endDequeue was
\* called.  The iteration that makes i reach count ends the loop and
\* endDequeue returns.
endDequeue_dequeue ==
    /\ pc = "drain"
    /\ i < count
    /\ secondaryQueue' = BQ_dequeue(secondaryQueue)
    /\ i' = i + 1
    /\ pc' = IF i + 1 < count THEN "drain" ELSE "idle"
    /\ active' = IF i + 1 < count THEN active ELSE FALSE
    /\ UNCHANGED <<primaryQueue, fieldVars, gcCalls, data, count, loaded, enqueued, returned, unremoved,
                   crashes, obs>>

\* Mutant of peekNext_finish: the cleanup runs one call early, when the
\* counter reaches the threshold.
peekNext_finish_early(d, pq, sq) ==
    /\ secondaryProcessedCount' = secondaryProcessedCount + 1
    /\ removeCount' = IF ~Decodable(d) THEN removeCount
                      ELSE IF removeCount + 1 >= QUEUE_CLEANUP_THRESHOLD THEN 0
                      ELSE removeCount + 1
    /\ primaryQueue' = pq
    /\ secondaryQueue' = sq
    /\ returned' = IF Decodable(d) THEN Append(returned, fromBytes(d)) ELSE returned
    /\ obs' = IF Decodable(d) THEN <<"peekNext", fromBytes(d)>> ELSE <<"peekNext failed", "decode">>
    /\ gcCalls' = IF Decodable(d) /\ removeCount + 1 >= QUEUE_CLEANUP_THRESHOLD
                  THEN <<gcCalls[1] + 1, gcCalls[2] + 1>> ELSE gcCalls
    /\ pc' = "idle"
    /\ data' = NULL
    /\ UNCHANGED <<secondaryQueueInitialCount, i, count, loaded, enqueued, unremoved, active,
                   crashes>>

\* The part of peekNext after the queue calls: secondaryProcessedCount++,
\* fromBytes(data), removeCount++, the cleanup, return.  A decode failure
\* leaves through the exception before removeCount++.  These statements are
\* one step where a single consumer thread uses the object; with two consumer
\* threads every field access is a step of its own (peekNext_processed_load
\* and the definitions after it).
peekNext_finish(d, pq, sq) ==
    /\ secondaryProcessedCount' = secondaryProcessedCount + 1
    /\ IF Decodable(d)
       THEN /\ removeCount' = IF removeCount + 1 > QUEUE_CLEANUP_THRESHOLD
                              THEN 0 ELSE removeCount + 1
            /\ primaryQueue' = IF removeCount + 1 > QUEUE_CLEANUP_THRESHOLD
                               THEN BQ_gc(pq) ELSE pq
            /\ secondaryQueue' = IF removeCount + 1 > QUEUE_CLEANUP_THRESHOLD
                                 THEN BQ_gc(sq) ELSE sq
            /\ returned' = Append(returned, fromBytes(d))
            /\ obs' = <<"peekNext", fromBytes(d)>>
       ELSE /\ removeCount' = removeCount
            /\ primaryQueue' = pq
            /\ secondaryQueue' = sq
            /\ returned' = returned
            /\ obs' = <<"peekNext failed", "decode">>
    /\ gcCalls' = IF Decodable(d) /\ removeCount + 1 > QUEUE_CLEANUP_THRESHOLD
                  THEN <<gcCalls[1] + 1, gcCalls[2] + 1>> ELSE gcCalls
    /\ pc' = "idle"
    /\ data' = NULL
    /\ UNCHANGED <<secondaryQueueInitialCount, i, count, loaded, enqueued, unremoved, active,
                   crashes>>

\* peekNext on an empty source queue: peek() gives null and enqueue(null)
\* throws before it changes the queue.
peekNext_empty ==
    /\ pc = "idle"
    /\ BQ_peek(IF secondaryProcessedCount < secondaryQueueInitialCount
               THEN secondaryQueue ELSE primaryQueue) = NULL
    /\ obs' = <<"peekNext failed", "null">>
    /\ UNCHANGED <<primaryQueue, secondaryQueue, fieldVars, gcCalls, pc, data, i, count, loaded, enqueued,
                   returned, unremoved, active, crashes>>

\* peekNext, replay branch: data = secondaryQueue.peek(); secondaryQueue.enqueue(data)
peekNext_replay_enqueue ==
    /\ pc = "idle"
    /\ secondaryProcessedCount < secondaryQueueInitialCount
    /\ BQ_peek(secondaryQueue) # NULL
    /\ data' = BQ_peek(secondaryQueue)
    /\ secondaryQueue' = BQ_enqueue(secondaryQueue, BQ_peek(secondaryQueue))
    /\ pc' = "replay"
    /\ obs' = <<"none">>
    /\ UNCHANGED <<primaryQueue, fieldVars, gcCalls, i, count, loaded, enqueued, returned, unremoved, active, crashes>>

\* Mutant of peekNext_replay_dequeue: the head of secondary is not removed
\* after it was appended again.
peekNext_replay_dequeue_keepHead ==
    /\ pc = "replay"
    /\ peekNext_finish(data, primaryQueue, secondaryQueue)

\* peekNext, replay branch: secondaryQueue.dequeue(), and the rest of the call
peekNext_replay_dequeue ==
    /\ pc = "replay"
    /\ peekNext_finish(data, primaryQueue, BQ_dequeue(secondaryQueue))

\* Mutant of peekNext_fresh_enqueue: the item is removed from primary before
\* it is appended to secondary.
peekNext_fresh_enqueue_dequeueFirst ==
    /\ pc = "idle"
    /\ ~(secondaryProcessedCount < secondaryQueueInitialCount)
    /\ BQ_peek(primaryQueue) # NULL
    /\ data' = BQ_peek(primaryQueue)
    /\ primaryQueue' = BQ_dequeue(primaryQueue)
    /\ pc' = "fresh"
    /\ obs' = <<"none">>
    /\ UNCHANGED <<secondaryQueue, fieldVars, gcCalls, i, count, loaded, enqueued, returned, unremoved, active, crashes>>

\* Mutant of peekNext_fresh_enqueue: the fresh branch is taken whatever the
\* session counters say.
peekNext_fresh_enqueue_always ==
    /\ pc = "idle"
    /\ BQ_peek(primaryQueue) # NULL
    /\ data' = BQ_peek(primaryQueue)
    /\ secondaryQueue' = BQ_enqueue(secondaryQueue, BQ_peek(primaryQueue))
    /\ pc' = "fresh"
    /\ obs' = <<"none">>
    /\ UNCHANGED <<primaryQueue, fieldVars, gcCalls, i, count, loaded, enqueued, returned, unremoved, active, crashes>>

\* peekNext, fresh branch: data = primaryQueue.peek(); secondaryQueue.enqueue(data)
peekNext_fresh_enqueue ==
    /\ pc = "idle"
    /\ ~(secondaryProcessedCount < secondaryQueueInitialCount)
    /\ BQ_peek(primaryQueue) # NULL
    /\ data' = BQ_peek(primaryQueue)
    /\ secondaryQueue' = BQ_enqueue(secondaryQueue, BQ_peek(primaryQueue))
    /\ pc' = "fresh"
    /\ obs' = <<"none">>
    /\ UNCHANGED <<primaryQueue, fieldVars, gcCalls, i, count, loaded, enqueued, returned, unremoved, active, crashes>>

\* Mutant of peekNext_fresh_dequeue: the item stays at the head of primary.
peekNext_fresh_dequeue_keepHead ==
    /\ pc = "fresh"
    /\ peekNext_finish(data, primaryQueue, secondaryQueue)

\* peekNext, fresh branch: primaryQueue.dequeue(), and the rest of the call
peekNext_fresh_dequeue ==
    /\ pc = "fresh"
    /\ peekNext_finish(data, BQ_dequeue(primaryQueue), secondaryQueue)

\* Mutant of isEmpty: the in-flight items of secondary count as work.
isEmpty_countsSecondary ==
    /\ secondaryProcessedCount >= secondaryQueueInitialCount
    /\ BQ_isEmpty(primaryQueue)
    /\ BQ_isEmpty(secondaryQueue)

\* isEmpty()
isEmpty ==
    secondaryProcessedCount >= secondaryQueueInitialCount /\ BQ_isEmpty(primaryQueue)

\* Mutant of size: the in-flight items of secondary are counted too.
size_countsSecondary == BQ_size(primaryQueue) + BQ_size(secondaryQueue)

\* size()
size == BQ_size(primaryQueue)

\* The consumer calls isEmpty() between two other calls.
isEmpty_call ==
    /\ pc = "idle"
    /\ obs' = <<"isEmpty", isEmpty>>
    /\ UNCHANGED <<progVars, gcCalls, pc, data, i, count, loaded, enqueued, returned, unremoved, active, crashes>>

\* The consumer calls size() between two other calls.
size_call ==
    /\ pc = "idle"
    /\ obs' = <<"size", size>>
    /\ UNCHANGED <<progVars, gcCalls, pc, data, i, count, loaded, enqueued, returned, unremoved, active, crashes>>

\* The process crashes and restarts: a new LocalIndexDataQueue is constructed
\* over the same two durable queues.
Crash ==
    /\ crashes < MaxCrashes
    /\ crashes' = crashes + 1
    /\ secondaryQueueInitialCount' = 0
    /\ secondaryProcessedCount' = 0
    /\ removeCount' = 0
    /\ gcCalls' = gcCalls
    /\ pc' = "idle"
    /\ data' = NULL
    /\ i' = 0
    /\ count' = 0
    /\ loaded' = 0
    /\ returned' = <<>>
    /\ unremoved' = 0
    /\ active' = FALSE
    /\ obs' = <<"none">>
    /\ UNCHANGED <<primaryQueue, secondaryQueue, enqueued>>

endDequeue ==
    \/ endDequeue_removeAll
    \/ endDequeue_nothing
    \/ endDequeue_begin
    \/ endDequeue_dequeue

peekNext ==
    \/ peekNext_empty
    \/ peekNext_replay_enqueue
    \/ peekNext_replay_dequeue
    \/ peekNext_fresh_enqueue
    \/ peekNext_fresh_dequeue

\* ------------------------------------------------------- specifications
\* Spec: any sequence of calls by one consumer thread, a producer that
\* enqueues at any moment, and crashes at any point.
Next ==
    \/ enqueue /\ UNCHANGED <<scriptVars, extVars>>
    \/ startDequeue /\ UNCHANGED <<scriptVars, extVars>>
    \/ endDequeue_removeAll /\ UNCHANGED <<scriptVars, extVars>>
    \/ endDequeue_nothing /\ UNCHANGED <<scriptVars, extVars>>
    \/ endDequeue_begin /\ UNCHANGED <<scriptVars, extVars>>
    \/ endDequeue_dequeue /\ UNCHANGED <<scriptVars, extVars>>
    \/ removeCount < MaxPeeks /\ peekNext_empty /\ UNCHANGED <<scriptVars, extVars>>
    \/ removeCount < MaxPeeks /\ peekNext_replay_enqueue /\ UNCHANGED <<scriptVars, extVars>>
    \/ peekNext_replay_dequeue /\ UNCHANGED <<scriptVars, extVars>>
    \/ removeCount < MaxPeeks /\ peekNext_fresh_enqueue /\ UNCHANGED <<scriptVars, extVars>>
    \/ peekNext_fresh_dequeue /\ UNCHANGED <<scriptVars, extVars>>
    \/ isEmpty_call /\ UNCHANGED <<scriptVars, extVars>>
    \/ size_call /\ UNCHANGED <<scriptVars, extVars>>
    \/ Crash /\ UNCHANGED <<scriptVars, extVars>>

Spec == Init /\ [][Next]_vars

\* SpecScenario: the scripted caller of the testable properties.  It enqueues
\* N operations on a new queue, runs a first session of k peekNext calls, and
\* then either ends the session (endDequeue) or the process crashes between
\* two calls and a second session runs on the new object.
ScenarioInit ==
    /\ primaryQueue = <<>>
    /\ secondaryQueue = <<>>
    /\ secondaryQueueInitialCount = 0
    /\ secondaryProcessedCount = 0
    /\ removeCount = 0
    /\ gcCalls = <<0, 0>>
    /\ pc = "idle"
    /\ data = NULL
    /\ i = 0
    /\ count = 0
    /\ loaded = 0
    /\ enqueued = 0
    /\ returned = <<>>
    /\ unremoved = 0
    /\ active = FALSE
    /\ crashes = 0
    /\ obs = <<"none">>
    /\ phase = "enq"
    /\ preCrash = <<>>
    /\ NoStore
    /\ NoForm

\* endDequeue returned: the session is over.
SessionOver(ph) == IF pc' = "idle" THEN (IF ph = "first" THEN "done" ELSE "done2") ELSE ph

ScenarioNext ==
    \/ phase = "enq" /\ enqueue /\ UNCHANGED <<scriptVars, extVars>>
    \/ phase = "enq" /\ startDequeue /\ phase' = "first" /\ UNCHANGED <<preCrash, extVars>>
    \/ phase \in {"first", "second"} /\ peekNext_empty /\ UNCHANGED <<scriptVars, extVars>>
    \/ phase \in {"first", "second"} /\ peekNext_replay_enqueue /\ UNCHANGED <<scriptVars, extVars>>
    \/ phase \in {"first", "second"} /\ peekNext_replay_dequeue /\ UNCHANGED <<scriptVars, extVars>>
    \/ phase \in {"first", "second"} /\ peekNext_fresh_enqueue /\ UNCHANGED <<scriptVars, extVars>>
    \/ phase \in {"first", "second"} /\ peekNext_fresh_dequeue /\ UNCHANGED <<scriptVars, extVars>>
    \/ phase \in {"first", "second"} /\ endDequeue_removeAll
          /\ phase' = SessionOver(phase) /\ UNCHANGED <<preCrash, extVars>>
    \/ phase \in {"first", "second"} /\ endDequeue_nothing
          /\ phase' = SessionOver(phase) /\ UNCHANGED <<preCrash, extVars>>
    \/ phase \in {"first", "second"} /\ endDequeue_begin
          /\ phase' = SessionOver(phase) /\ UNCHANGED <<preCrash, extVars>>
    \/ phase \in {"first", "second"} /\ endDequeue_dequeue
          /\ phase' = SessionOver(phase) /\ UNCHANGED <<preCrash, extVars>>
    \/ phase = "first" /\ pc = "idle" /\ Crash /\ phase' = "down" /\ preCrash' = returned /\ UNCHANGED extVars
    \/ phase = "down" /\ startDequeue /\ phase' = "second" /\ UNCHANGED <<preCrash, extVars>>
    \/ isEmpty_call /\ UNCHANGED <<scriptVars, extVars>>
    \/ size_call /\ UNCHANGED <<scriptVars, extVars>>

SpecScenario == ScenarioInit /\ [][ScenarioNext]_vars

\* SpecLive: the consumer loop
\*     startDequeue(); while (!isEmpty()) peekNext(); endDequeue();
\* repeated for ever by one thread, restarted from its top after a crash, with
\* a producer that enqueues at any moment.  phase is the position in the loop.
LiveInit ==
    /\ primaryQueue = <<>>
    /\ secondaryQueue = <<>>
    /\ secondaryQueueInitialCount = 0
    /\ secondaryProcessedCount = 0
    /\ removeCount = 0
    /\ gcCalls = <<0, 0>>
    /\ pc = "idle"
    /\ data = NULL
    /\ i = 0
    /\ count = 0
    /\ loaded = 0
    /\ enqueued = 0
    /\ returned = <<>>
    /\ unremoved = 0
    /\ active = FALSE
    /\ crashes = 0
    /\ obs = <<"none">>
    /\ phase = "start"
    /\ preCrash = <<>>
    /\ NoStore
    /\ NoForm

ConsumerStep ==
    \/ phase = "start" /\ startDequeue /\ phase' = "loop" /\ UNCHANGED <<preCrash, extVars>>
    \/ phase = "loop" /\ isEmpty_call
          /\ phase' = (IF isEmpty THEN "end" ELSE "peek") /\ UNCHANGED <<preCrash, extVars>>
    \/ phase = "peek" /\ peekNext_replay_enqueue /\ UNCHANGED <<scriptVars, extVars>>
    \/ phase = "peek" /\ peekNext_replay_dequeue /\ phase' = "loop" /\ UNCHANGED <<preCrash, extVars>>
    \/ phase = "peek" /\ peekNext_fresh_enqueue /\ UNCHANGED <<scriptVars, extVars>>
    \/ phase = "peek" /\ peekNext_fresh_dequeue /\ phase' = "loop" /\ UNCHANGED <<preCrash, extVars>>
    \/ phase = "end" /\ endDequeue
          /\ phase' = (IF pc' = "idle" THEN "start" ELSE "end") /\ UNCHANGED <<preCrash, extVars>>

LiveNext ==
    \/ ConsumerStep
    \/ enqueue /\ UNCHANGED <<scriptVars, extVars>>
    \/ Crash /\ phase' = "start" /\ UNCHANGED <<preCrash, extVars>>

SpecLive == LiveInit /\ [][LiveNext]_vars /\ WF_vars(ConsumerStep)

\* SpecConcurrent: one producer thread and one consumer thread on one queue
\* object, no crash.  The producer calls enqueue at any moment, between any two
\* queue calls of the consumer.  The consumer follows the protocol: startDequeue,
\* any number of peekNext, isEmpty and size calls, endDequeue, and again.
ConcurrentInit ==
    /\ primaryQueue = <<>>
    /\ secondaryQueue = <<>>
    /\ secondaryQueueInitialCount = 0
    /\ secondaryProcessedCount = 0
    /\ removeCount = 0
    /\ gcCalls = <<0, 0>>
    /\ pc = "idle"
    /\ data = NULL
    /\ i = 0
    /\ count = 0
    /\ loaded = 0
    /\ enqueued = 0
    /\ returned = <<>>
    /\ unremoved = 0
    /\ active = FALSE
    /\ crashes = 0
    /\ obs = <<"none">>
    /\ phase = "out"
    /\ preCrash = <<>>
    /\ NoStore
    /\ NoForm

\* What the step returned to the consumer, if it was the return of a peekNext.
Deliver ==
    delivered' = IF obs'[1] = "peekNext" THEN Append(delivered, obs'[2]) ELSE delivered

ConcurrentNext ==
    \/ enqueue /\ UNCHANGED <<scriptVars, extVars>>
    \/ phase = "out" /\ startDequeue /\ phase' = "in" /\ UNCHANGED <<preCrash, extVars>>
    \/ phase = "in" /\ peekNext /\ Deliver
          /\ UNCHANGED <<scriptVars, other, tid, overlapped, refreshVars, storeVars, faultVars, formVars>>
    \/ phase = "in" /\ isEmpty_call /\ UNCHANGED <<scriptVars, extVars>>
    \/ phase = "in" /\ size_call /\ UNCHANGED <<scriptVars, extVars>>
    \/ phase = "in" /\ endDequeue
          /\ phase' = (IF pc' = "idle" THEN "out" ELSE "in") /\ UNCHANGED <<preCrash, extVars>>

SpecConcurrent == ConcurrentInit /\ [][ConcurrentNext]_vars

\* SpecTwoConsumers: two consumer threads on one queue object, no producer
\* running and no crash.  primary holds RaceOps operations and the object has
\* served QUEUE_CLEANUP_THRESHOLD peekNext calls in sessions that have ended,
\* so that the next call runs the cleanup.  The threads share the fields of
\* the object and its two durable queues, without a lock; each has its own
\* position and locals (pc, data, i, count, and loaded for a field value it
\* has read and not yet used) and follows the protocol on its own:
\* startDequeue, peekNext calls, endDequeue.  A step of a thread is one read or
\* one write of a field, or one call of a durable queue (the queues are
\* thread-safe); Switch hands the processor to the other thread between any
\* two steps.  The histories of the single consumer (returned, unremoved,
\* active, obs) are not kept; delivered gets every operation a peekNext
\* returns.
TwoConsumersInit ==
    /\ primaryQueue = [k \in 1..RaceOps |-> getBytes(IndexOperation(k))]
    /\ secondaryQueue = <<>>
    /\ secondaryQueueInitialCount = 0
    /\ secondaryProcessedCount = 0
    /\ removeCount = QUEUE_CLEANUP_THRESHOLD
    /\ gcCalls = <<0, 0>>
    /\ pc = "idle"
    /\ data = NULL
    /\ i = 0
    /\ count = 0
    /\ loaded = 0
    /\ enqueued = RaceOps
    /\ returned = <<>>
    /\ unremoved = 0
    /\ active = FALSE
    /\ crashes = 0
    /\ obs = <<"none">>
    /\ phase = "out"
    /\ preCrash = <<>>
    /\ NoStore
    /\ NoForm

\* startDequeue, first statement: this.secondaryProcessedCount = 0.  The thread
\* is inside its session from here on.
startDequeue_resetProcessed ==
    /\ pc = "idle"
    /\ phase = "out"
    /\ secondaryProcessedCount' = 0
    /\ pc' = "startDequeue.size"
    /\ phase' = "in"
    /\ overlapped' = (overlapped \/ other[6] = "in")
    /\ UNCHANGED <<primaryQueue, secondaryQueue, secondaryQueueInitialCount, removeCount,
                   gcCalls, data, i, count, loaded, enqueued, returned, unremoved, active, crashes,
                   obs, delivered>>

\* startDequeue, second statement, right-hand side: this.secondaryQueue.size()
startDequeue_size ==
    /\ pc = "startDequeue.size"
    /\ loaded' = BQ_size(secondaryQueue)
    /\ pc' = "startDequeue.assign"
    /\ UNCHANGED <<primaryQueue, secondaryQueue, secondaryQueueInitialCount,
                   secondaryProcessedCount, removeCount, gcCalls, data, i, count, enqueued,
                   returned, unremoved, active, crashes, obs, phase, delivered, overlapped>>

\* startDequeue, second statement, the assignment to
\* this.secondaryQueueInitialCount; startDequeue returns.
startDequeue_assign ==
    /\ pc = "startDequeue.assign"
    /\ secondaryQueueInitialCount' = loaded
    /\ loaded' = 0
    /\ pc' = "idle"
    /\ UNCHANGED <<primaryQueue, secondaryQueue, secondaryProcessedCount, removeCount,
                   gcCalls, data, i, count, enqueued, returned, unremoved, active, crashes, obs,
                   phase, delivered, overlapped>>

\* endDequeue: the argument this.secondaryProcessedCount of queueDrain is read.
endDequeue_loadCount ==
    /\ pc = "idle"
    /\ phase = "in"
    /\ count' = secondaryProcessedCount
    /\ pc' = "queueDrain.size"
    /\ UNCHANGED <<primaryQueue, secondaryQueue, secondaryQueueInitialCount,
                   secondaryProcessedCount, removeCount, gcCalls, data, i, loaded,
                   enqueued, returned, unremoved, active, crashes, obs, phase, delivered, overlapped>>

\* queueDrain: queueSize = queue.size() and the test count >= queueSize.  With
\* count < queueSize and count = 0 the loop body never runs and endDequeue
\* returns.
endDequeue_size ==
    /\ pc = "queueDrain.size"
    /\ i' = 0
    /\ pc' = IF count >= BQ_size(secondaryQueue) THEN "queueDrain.removeAll"
           ELSE IF 0 < count THEN "drain" ELSE "idle"
    /\ phase' = IF count < BQ_size(secondaryQueue) /\ count = 0 THEN "out" ELSE "in"
    /\ UNCHANGED <<primaryQueue, secondaryQueue, secondaryQueueInitialCount,
                   secondaryProcessedCount, removeCount, gcCalls, data, count, loaded,
                   enqueued, returned, unremoved, active, crashes, obs, delivered, overlapped>>

\* queueDrain, count >= queueSize: queue.removeAll(); endDequeue returns.
endDequeue_removeAll_call ==
    /\ pc = "queueDrain.removeAll"
    /\ secondaryQueue' = BQ_removeAll(secondaryQueue)
    /\ pc' = "idle"
    /\ phase' = "out"
    /\ UNCHANGED <<primaryQueue, secondaryQueueInitialCount, secondaryProcessedCount,
                   removeCount, gcCalls, data, i, count, loaded, enqueued, returned, unremoved,
                   active, crashes, obs, delivered, overlapped>>

\* peekNext, the test of the if: this.secondaryProcessedCount is read.
peekNext_loadProcessed ==
    /\ pc = "idle"
    /\ phase = "in"
    /\ Len(delivered) < RacePeeks
    /\ loaded' = secondaryProcessedCount
    /\ pc' = "peekNext.test"
    /\ UNCHANGED <<primaryQueue, secondaryQueue, secondaryQueueInitialCount,
                   secondaryProcessedCount, removeCount, gcCalls, data, i, count, enqueued,
                   returned, unremoved, active, crashes, obs, phase, delivered, overlapped>>

\* peekNext, the test of the if: this.secondaryQueueInitialCount is read and
\* compared with the value read for secondaryProcessedCount.
peekNext_test ==
    /\ pc = "peekNext.test"
    /\ pc' = IF loaded < secondaryQueueInitialCount THEN "secondary.peek" ELSE "primary.peek"
    /\ loaded' = 0
    /\ UNCHANGED <<primaryQueue, secondaryQueue, secondaryQueueInitialCount,
                   secondaryProcessedCount, removeCount, gcCalls, data, i, count, enqueued,
                   returned, unremoved, active, crashes, obs, phase, delivered, overlapped>>

\* peekNext, replay branch: data = this.secondaryQueue.peek()
peekNext_replay_peek ==
    /\ pc = "secondary.peek"
    /\ data' = BQ_peek(secondaryQueue)
    /\ pc' = "secondary.enqueue"
    /\ UNCHANGED <<primaryQueue, secondaryQueue, secondaryQueueInitialCount,
                   secondaryProcessedCount, removeCount, gcCalls, i, count, loaded,
                   enqueued, returned, unremoved, active, crashes, obs, phase, delivered, overlapped>>

\* peekNext, replay branch: this.secondaryQueue.enqueue(data).  enqueue(null)
\* throws before it changes the queue, and peekNext ends there.
peekNext_replay_append ==
    /\ pc = "secondary.enqueue"
    /\ secondaryQueue' = IF data = NULL THEN secondaryQueue ELSE BQ_enqueue(secondaryQueue, data)
    /\ pc' = IF data = NULL THEN "idle" ELSE "secondary.dequeue"
    /\ UNCHANGED <<primaryQueue, secondaryQueueInitialCount, secondaryProcessedCount,
                   removeCount, gcCalls, data, i, count, loaded, enqueued, returned, unremoved,
                   active, crashes, obs, phase, delivered, overlapped>>

\* peekNext, replay branch: this.secondaryQueue.dequeue()
peekNext_replay_remove ==
    /\ pc = "secondary.dequeue"
    /\ secondaryQueue' = BQ_dequeue(secondaryQueue)
    /\ pc' = "processed.load"
    /\ UNCHANGED <<primaryQueue, secondaryQueueInitialCount, secondaryProcessedCount,
                   removeCount, gcCalls, data, i, count, loaded, enqueued, returned, unremoved,
                   active, crashes, obs, phase, delivered, overlapped>>

\* peekNext, fresh branch: data = this.primaryQueue.peek()
peekNext_fresh_peek ==
    /\ pc = "primary.peek"
    /\ data' = BQ_peek(primaryQueue)
    /\ pc' = "primary.enqueue"
    /\ UNCHANGED <<primaryQueue, secondaryQueue, secondaryQueueInitialCount,
                   secondaryProcessedCount, removeCount, gcCalls, i, count, loaded,
                   enqueued, returned, unremoved, active, crashes, obs, phase, delivered, overlapped>>

\* peekNext, fresh branch: this.secondaryQueue.enqueue(data).  enqueue(null)
\* throws before it changes the queue, and peekNext ends there.
peekNext_fresh_append ==
    /\ pc = "primary.enqueue"
    /\ secondaryQueue' = IF data = NULL THEN secondaryQueue ELSE BQ_enqueue(secondaryQueue, data)
    /\ pc' = IF data = NULL THEN "idle" ELSE "primary.dequeue"
    /\ UNCHANGED <<primaryQueue, secondaryQueueInitialCount, secondaryProcessedCount,
                   removeCount, gcCalls, data, i, count, loaded, enqueued, returned, unremoved,
                   active, crashes, obs, phase, delivered, overlapped>>

\* Mutant of peekNext_fresh_remove: the item stays at the head of primary.
peekNext_fresh_remove_keepHead ==
    /\ pc = "primary.dequeue"
    /\ pc' = "processed.load"
    /\ UNCHANGED <<primaryQueue, secondaryQueue, secondaryQueueInitialCount,
                   secondaryProcessedCount, removeCount, gcCalls, data, i, count, loaded,
                   enqueued, returned, unremoved, active, crashes, obs, phase, delivered, overlapped>>

\* peekNext, fresh branch: this.primaryQueue.dequeue()
peekNext_fresh_remove ==
    /\ pc = "primary.dequeue"
    /\ primaryQueue' = BQ_dequeue(primaryQueue)
    /\ pc' = "processed.load"
    /\ UNCHANGED <<secondaryQueue, secondaryQueueInitialCount, secondaryProcessedCount,
                   removeCount, gcCalls, data, i, count, loaded, enqueued, returned, unremoved,
                   active, crashes, obs, phase, delivered, overlapped>>

\* peekNext, this.secondaryProcessedCount++: the field is read.
peekNext_processed_load ==
    /\ pc = "processed.load"
    /\ loaded' = secondaryProcessedCount
    /\ pc' = "processed.store"
    /\ UNCHANGED <<primaryQueue, secondaryQueue, secondaryQueueInitialCount,
                   secondaryProcessedCount, removeCount, gcCalls, data, i, count, enqueued,
                   returned, unremoved, active, crashes, obs, phase, delivered, overlapped>>

\* peekNext, this.secondaryProcessedCount++: the value read, plus one, is
\* written to the field.
peekNext_processed_store ==
    /\ pc = "processed.store"
    /\ secondaryProcessedCount' = loaded + 1
    /\ loaded' = 0
    /\ pc' = "remove.load"
    /\ UNCHANGED <<primaryQueue, secondaryQueue, secondaryQueueInitialCount, removeCount,
                   gcCalls, data, i, count, enqueued, returned, unremoved, active, crashes, obs,
                   phase, delivered, overlapped>>

\* peekNext, after fromBytes(data), this.removeCount++: the field is read.
peekNext_remove_load ==
    /\ pc = "remove.load"
    /\ loaded' = removeCount
    /\ pc' = "remove.store"
    /\ UNCHANGED <<primaryQueue, secondaryQueue, secondaryQueueInitialCount,
                   secondaryProcessedCount, removeCount, gcCalls, data, i, count, enqueued,
                   returned, unremoved, active, crashes, obs, phase, delivered, overlapped>>

\* peekNext, this.removeCount++: the value read, plus one, is written to the
\* field.
peekNext_remove_store ==
    /\ pc = "remove.store"
    /\ removeCount' = loaded + 1
    /\ loaded' = 0
    /\ pc' = "cleanup.test"
    /\ UNCHANGED <<primaryQueue, secondaryQueue, secondaryQueueInitialCount,
                   secondaryProcessedCount, gcCalls, data, i, count, enqueued, returned, unremoved,
                   active, crashes, obs, phase, delivered, overlapped>>

\* peekNext: this.removeCount is read for the test removeCount >
\* QUEUE_CLEANUP_THRESHOLD; when the test fails peekNext returns indexOp.
peekNext_cleanup_test ==
    /\ pc = "cleanup.test"
    /\ pc' = IF removeCount > QUEUE_CLEANUP_THRESHOLD THEN "primary.gc" ELSE "idle"
    /\ data' = IF removeCount > QUEUE_CLEANUP_THRESHOLD THEN data ELSE NULL
    /\ delivered' = IF removeCount > QUEUE_CLEANUP_THRESHOLD THEN delivered
                  ELSE Append(delivered, fromBytes(data))
    /\ UNCHANGED <<primaryQueue, secondaryQueue, secondaryQueueInitialCount,
                   secondaryProcessedCount, removeCount, gcCalls, i, count, loaded,
                   enqueued, returned, unremoved, active, crashes, obs, phase, overlapped>>

\* peekNext, the cleanup: this.primaryQueue.gc()
peekNext_cleanup_gcPrimary ==
    /\ pc = "primary.gc"
    /\ primaryQueue' = BQ_gc(primaryQueue)
    /\ gcCalls' = <<gcCalls[1] + 1, gcCalls[2]>>
    /\ pc' = "secondary.gc"
    /\ UNCHANGED <<secondaryQueue, secondaryQueueInitialCount, secondaryProcessedCount,
                   removeCount, data, i, count, loaded, enqueued, returned, unremoved, active,
                   crashes, obs, phase, delivered, overlapped>>

\* peekNext, the cleanup: this.secondaryQueue.gc()
peekNext_cleanup_gcSecondary ==
    /\ pc = "secondary.gc"
    /\ secondaryQueue' = BQ_gc(secondaryQueue)
    /\ gcCalls' = <<gcCalls[1], gcCalls[2] + 1>>
    /\ pc' = "cleanup.reset"
    /\ UNCHANGED <<primaryQueue, secondaryQueueInitialCount, secondaryProcessedCount,
                   removeCount, data, i, count, loaded, enqueued, returned, unremoved, active,
                   crashes, obs, phase, delivered, overlapped>>

\* peekNext, the cleanup: this.removeCount = 0; peekNext returns indexOp.
peekNext_cleanup_reset ==
    /\ pc = "cleanup.reset"
    /\ removeCount' = 0
    /\ pc' = "idle"
    /\ data' = NULL
    /\ delivered' = Append(delivered, fromBytes(data))
    /\ UNCHANGED <<primaryQueue, secondaryQueue, secondaryQueueInitialCount,
                   secondaryProcessedCount, gcCalls, i, count, loaded, enqueued, returned, unremoved,
                   active, crashes, obs, phase, overlapped>>

\* The running thread is taken off the processor and the other thread goes on
\* where it was.
Switch ==
    /\ other' = <<pc, data, i, count, loaded, phase>>
    /\ pc' = other[1]
    /\ data' = other[2]
    /\ i' = other[3]
    /\ count' = other[4]
    /\ loaded' = other[5]
    /\ phase' = other[6]
    /\ tid' = 3 - tid
    /\ UNCHANGED <<primaryQueue, secondaryQueue, fieldVars, gcCalls, enqueued, returned, unremoved, active,
                   crashes, obs, preCrash, delivered, overlapped, refreshVars, storeVars, faultVars, formVars>>

raceFrame == <<preCrash, other, tid, refreshVars, storeVars, faultVars, formVars>>

TwoConsumersNext ==
    \/ startDequeue_resetProcessed /\ UNCHANGED raceFrame
    \/ startDequeue_size /\ UNCHANGED raceFrame
    \/ startDequeue_assign /\ UNCHANGED raceFrame
    \/ endDequeue_loadCount /\ UNCHANGED raceFrame
    \/ endDequeue_size /\ UNCHANGED raceFrame
    \/ endDequeue_removeAll_call /\ UNCHANGED raceFrame
    \/ peekNext_loadProcessed /\ UNCHANGED raceFrame
    \/ peekNext_test /\ UNCHANGED raceFrame
    \/ peekNext_replay_peek /\ UNCHANGED raceFrame
    \/ peekNext_replay_append /\ UNCHANGED raceFrame
    \/ peekNext_replay_remove /\ UNCHANGED raceFrame
    \/ peekNext_fresh_peek /\ UNCHANGED raceFrame
    \/ peekNext_fresh_append /\ UNCHANGED raceFrame
    \/ peekNext_fresh_remove /\ UNCHANGED raceFrame
    \/ peekNext_processed_load /\ UNCHANGED raceFrame
    \/ peekNext_processed_store /\ UNCHANGED raceFrame
    \/ peekNext_remove_load /\ UNCHANGED raceFrame
    \/ peekNext_remove_store /\ UNCHANGED raceFrame
    \/ peekNext_cleanup_test /\ UNCHANGED raceFrame
    \/ peekNext_cleanup_gcPrimary /\ UNCHANGED raceFrame
    \/ peekNext_cleanup_gcSecondary /\ UNCHANGED raceFrame
    \/ peekNext_cleanup_reset /\ UNCHANGED raceFrame
    \/ /\ endDequeue_dequeue
       /\ phase' = (IF pc' = "idle" THEN "out" ELSE "in")
       /\ UNCHANGED <<delivered, overlapped, raceFrame>>
    \/ Switch

SpecTwoConsumers == TwoConsumersInit /\ [][TwoConsumersNext]_vars

\* ------------------------------------------- I/O failures of the primitive
\* A call of the durable queue primitive throws IOException inside
\* `operation`: the primitive has changed nothing, the catch block of the
\* operation wraps the IOException in an AnalyticsException and throws it to
\* the caller.
IOFailure(operation, call) ==
    /\ faults' = Append(faults, <<operation, call>>)
    /\ thrown' = <<"AnalyticsException", "IOException", operation>>

\* Mutant of enqueue_fails: the IOException is caught and dropped, enqueue
\* returns normally.
enqueue_fails_swallowed ==
    /\ faults' = Append(faults, <<"enqueue", "primaryQueue.enqueue">>)
    /\ thrown' = NoException
    /\ UNCHANGED coreVars

\* enqueue: primaryQueue.enqueue(bytes) throws.
enqueue_fails ==
    /\ enqueued < MaxOps
    /\ IOFailure("enqueue", "primaryQueue.enqueue")
    /\ UNCHANGED coreVars

\* peekNext, replay branch: secondaryQueue.peek() or secondaryQueue.enqueue(data) throws.
peekNext_replay_enqueue_fails(call) ==
    /\ pc = "idle"
    /\ secondaryProcessedCount < secondaryQueueInitialCount
    /\ call \in {"secondaryQueue.peek", "secondaryQueue.enqueue"}
    /\ call = "secondaryQueue.enqueue" => BQ_peek(secondaryQueue) # NULL
    /\ IOFailure("peekNext", call)
    /\ obs' = <<"peekNext failed", "io">>
    /\ UNCHANGED <<primaryQueue, secondaryQueue, fieldVars, gcCalls, pc, data, i, count, loaded, enqueued,
                   returned, unremoved, active, crashes>>

\* peekNext, replay branch: secondaryQueue.dequeue() throws, after the item was
\* appended to secondary again.
peekNext_replay_dequeue_fails ==
    /\ pc = "replay"
    /\ IOFailure("peekNext", "secondaryQueue.dequeue")
    /\ unremoved' = unremoved + 1
    /\ pc' = "idle"
    /\ data' = NULL
    /\ obs' = <<"peekNext failed", "io">>
    /\ UNCHANGED <<primaryQueue, secondaryQueue, fieldVars, gcCalls, i, count, loaded, enqueued,
                   returned, active, crashes>>

\* peekNext, fresh branch: primaryQueue.peek() or secondaryQueue.enqueue(data) throws.
peekNext_fresh_enqueue_fails(call) ==
    /\ pc = "idle"
    /\ ~(secondaryProcessedCount < secondaryQueueInitialCount)
    /\ call \in {"primaryQueue.peek", "secondaryQueue.enqueue"}
    /\ call = "secondaryQueue.enqueue" => BQ_peek(primaryQueue) # NULL
    /\ IOFailure("peekNext", call)
    /\ obs' = <<"peekNext failed", "io">>
    /\ UNCHANGED <<primaryQueue, secondaryQueue, fieldVars, gcCalls, pc, data, i, count, loaded, enqueued,
                   returned, unremoved, active, crashes>>

\* peekNext, fresh branch: primaryQueue.dequeue() throws, after the item was
\* appended to secondary.
peekNext_fresh_dequeue_fails ==
    /\ pc = "fresh"
    /\ IOFailure("peekNext", "primaryQueue.dequeue")
    /\ unremoved' = unremoved + 1
    /\ pc' = "idle"
    /\ data' = NULL
    /\ obs' = <<"peekNext failed", "io">>
    /\ UNCHANGED <<primaryQueue, secondaryQueue, fieldVars, gcCalls, i, count, loaded, enqueued,
                   returned, active, crashes>>

\* The part of peekNext after the queue calls, when the cleanup is due and a
\* gc() call throws: the item was moved, secondaryProcessedCount++ and
\* removeCount++ are done, the counter is not reset, and the operation is not
\* returned.  When secondaryQueue.gc() is the call that throws,
\* primaryQueue.gc() has run.
peekNext_finish_gc_fails(d, pq, sq, call) ==
    /\ call \in {"primaryQueue.gc", "secondaryQueue.gc"}
    /\ Decodable(d)
    /\ removeCount + 1 > QUEUE_CLEANUP_THRESHOLD
    /\ secondaryProcessedCount' = secondaryProcessedCount + 1
    /\ removeCount' = removeCount + 1
    /\ primaryQueue' = IF call = "secondaryQueue.gc" THEN BQ_gc(pq) ELSE pq
    /\ secondaryQueue' = sq
    /\ gcCalls' = IF call = "secondaryQueue.gc" THEN <<gcCalls[1] + 1, gcCalls[2]>> ELSE gcCalls
    /\ IOFailure("peekNext", call)
    /\ obs' = <<"peekNext failed", "io">>
    /\ pc' = "idle"
    /\ data' = NULL
    /\ UNCHANGED <<secondaryQueueInitialCount, i, count, loaded, enqueued, returned, unremoved, active,
                   crashes>>

\* peekNext, replay branch: secondaryQueue.dequeue() and the rest of the call,
\* in which a gc() call throws.
peekNext_replay_dequeue_gc_fails(call) ==
    /\ pc = "replay"
    /\ peekNext_finish_gc_fails(data, primaryQueue, BQ_dequeue(secondaryQueue), call)

\* peekNext, fresh branch: primaryQueue.dequeue() and the rest of the call, in
\* which a gc() call throws.
peekNext_fresh_dequeue_gc_fails(call) ==
    /\ pc = "fresh"
    /\ peekNext_finish_gc_fails(data, BQ_dequeue(primaryQueue), secondaryQueue, call)

\* endDequeue, count >= queueSize: secondaryQueue.removeAll() throws.
endDequeue_removeAll_fails ==
    /\ pc = "idle"
    /\ secondaryProcessedCount >= BQ_size(secondaryQueue)
    /\ IOFailure("endDequeue", "secondaryQueue.removeAll")
    /\ obs' = <<"endDequeue failed", "io">>
    /\ UNCHANGED <<primaryQueue, secondaryQueue, fieldVars, gcCalls, pc, data, i, count, loaded, enqueued,
                   returned, unremoved, active, crashes>>

\* endDequeue, an iteration of the loop of queueDrain: secondaryQueue.dequeue()
\* throws; the iterations before it have removed their items.
endDequeue_dequeue_fails ==
    /\ pc = "drain"
    /\ i < count
    /\ IOFailure("endDequeue", "secondaryQueue.dequeue")
    /\ pc' = "idle"
    /\ obs' = <<"endDequeue failed", "io">>
    /\ UNCHANGED <<primaryQueue, secondaryQueue, fieldVars, gcCalls, data, i, count, loaded, enqueued,
                   returned, unremoved, active, crashes>>

\* new LocalIndexDataQueue(shardIndex): createQueue throws for the queue with
\* the given suffix and no queue object is made.
createQueue_fails(suffix) ==
    /\ pc = "idle"
    /\ IOFailure("createQueue", suffix)
    /\ UNCHANGED coreVars

\* ============================================================ the store
\* --------------------------------------------- IndexOperation, with its fields
\* null in a field of type String
NullString == "null"

\* new IndexOperation(delete)
newIndexOperation(delete) ==
    [delete |-> delete, ids |-> NULL, deleteTenantId |-> 0,
     deleteTableName |-> NullString, records |-> NULL]

setIds(indexOp, ids) == [indexOp EXCEPT !.ids = ids]

setRecords(indexOp, records) == [indexOp EXCEPT !.records = records]

setDeleteTenantId(indexOp, deleteTenantId) ==
    [indexOp EXCEPT !.deleteTenantId = deleteTenantId]

setDeleteTableName(indexOp, deleteTableName) ==
    [indexOp EXCEPT !.deleteTableName = deleteTableName]

\* GenericUtils.serializeObject / deserializeObject, as used by getBytes and
\* fromBytes: the bytes carry the whole object.
serializeObject(indexOp) == <<"ser", indexOp>>

deserializeObject(b) == b[2]

\* ------------------------------------------------------------- the inputs
\* The records (for delete: the record ids) a batch is made of.
Records == {"r1", "r2"}

\* The batches handed to put and delete.
Batches == {<<>>, <<"r1">>, <<"r1", "r2">>}

TenantIds == {7}

TableNames == {"T"}

\* The items of batch that the routing a sends to shard s, in batch order.
Partition(batch, a, s) ==
    LET ToShard(r) == a[r] = s IN SelectSeq(batch, ToShard)

\* indexer.extractShardedRecords / extractShardedIds: the batch partitioned by a
\* routing a of its items to shards.  The map has an entry for every shard that
\* gets an item, and may have entries with an empty list (the shards in extra).
extractSharded(batch, a, extra) ==
    [s \in extra \cup {a[r] : r \in Range(batch)} |-> Partition(batch, a, s)]

\* Every map the indexer can return.
ShardedBatches ==
    {extractSharded(batch, a, extra) :
        batch \in Batches, a \in [Records -> Shards], extra \in SUBSET Shards}

\* ---------------------------------------------------- the durable queue ids
\* shardIndex + PRIMARY_QUEUE_SUFFIX, shardIndex + SECONDARY_QUEUE_SUFFIX
PRIMARY_QUEUE_SUFFIX == "P"

SECONDARY_QUEUE_SUFFIX == "S"

\* String.valueOf(int) for a shard index (not negative): its decimal digits.
Digit(d) ==
    CASE d = 0 -> "0" [] d = 1 -> "1" [] d = 2 -> "2" [] d = 3 -> "3" [] d = 4 -> "4"
      [] d = 5 -> "5" [] d = 6 -> "6" [] d = 7 -> "7" [] d = 8 -> "8" [] d = 9 -> "9"

RECURSIVE IntToString(_)
IntToString(n) == IF n < 10 THEN Digit(n) ELSE IntToString(n \div 10) \o Digit(n % 10)

\* Mutant of queueId: the suffix is not appended.
queueId_noSuffix(shardIndex, suffix) == IntToString(shardIndex)

\* The queue id that the constructor passes to createQueue: shardIndex + suffix.
queueId(shardIndex, suffix) == IntToString(shardIndex) \o suffix

\* createQueue: the directory of every queue is the resolved staging location.
DEFAULT_LOCAL_INDEX_STAGING_LOCATION == "index_staging_queues"

\* new BigQueueImpl(path, queueId): the durable queue that an instance is on.
DurableQueue(inst) == <<DEFAULT_LOCAL_INDEX_STAGING_LOCATION, queueId(inst[1], inst[2])>>

\* The two durable-queue instances that the queue object g of shard s opened.
InstancesOf(s, g) == {<<s, PRIMARY_QUEUE_SUFFIX, g>>, <<s, SECONDARY_QUEUE_SUFFIX, g>>}

\* Opening a durable queue (new BigQueueImpl) either succeeds everywhere, or
\* fails with an IOException for the queue <<shard, suffix>>.
NoFailure == <<0, "none">>

OpenFailures(shards) ==
    {<<s, suffix>> : s \in shards, suffix \in {PRIMARY_QUEUE_SUFFIX, SECONDARY_QUEUE_SUFFIX}}

\* The shards that have an entry in indexDataQueues.
Mapped == {s \in Shards : indexDataQueues[s] # NoQueue}

\* ----------------------------------------------------------------- actions
\* new LocalIndexDataStore(indexer): an empty map, then refreshLocalIndexShards.
StoreInit ==
    /\ primaryQueue = <<>>
    /\ secondaryQueue = <<>>
    /\ secondaryQueueInitialCount = 0
    /\ secondaryProcessedCount = 0
    /\ removeCount = 0
    /\ gcCalls = <<0, 0>>
    /\ pc = "idle"
    /\ data = NULL
    /\ i = 0
    /\ count = 0
    /\ loaded = 0
    /\ enqueued = 0
    /\ returned = <<>>
    /\ unremoved = 0
    /\ active = FALSE
    /\ crashes = 0
    /\ obs = <<"none">>
    /\ phase = "free"
    /\ preCrash = <<>>
    /\ delivered = <<>>
    /\ other = <<"idle", NULL, 0, 0, 0, "out">>
    /\ tid = 1
    /\ overlapped = FALSE
    /\ pending = <<>>
    /\ shardPrimary = [s \in Shards |-> <<>>]
    /\ localShards \in SUBSET Shards
    /\ refreshes = 1
    /\ indexDataQueues = [s \in Shards |-> IF s \in localShards THEN 1 ELSE NoQueue]
    /\ openInstances = UNION {InstancesOf(s, 1) : s \in localShards}
    /\ spc = "idle"
    /\ sobs = <<"refresh", localShards, NoFailure>>
    /\ closeAttempted = {}
    /\ closeFailed = {}
    /\ faults = <<>>
    /\ thrown = NoException
    /\ NoForm

\* Mutant of put: the operation built for an entry goes to the queue of the
\* shard with the next index.
put_nextShard(recordsMap) ==
    /\ spc = "idle"
    /\ shardPrimary' =
         [t \in Shards |->
            LET s == IF t = 1 THEN MaxShards ELSE t - 1 IN
            IF s \in DOMAIN recordsMap /\ indexDataQueues[t] # NoQueue
            THEN BQ_enqueue(shardPrimary[t],
                     serializeObject(setRecords(newIndexOperation(FALSE), recordsMap[s])))
            ELSE shardPrimary[t]]
    /\ enqueued' = enqueued + Cardinality(DOMAIN recordsMap \cap Mapped)
    /\ sobs' = <<"put", recordsMap>>
    /\ UNCHANGED <<indexDataQueues, openInstances, localShards, spc,
                   closeAttempted, closeFailed, refreshes>>

\* put(records): one IndexOperation for every entry of the sharded map whose
\* shard has a queue in indexDataQueues.
put(recordsMap) ==
    /\ spc = "idle"
    /\ shardPrimary' =
         [s \in Shards |->
            IF s \in DOMAIN recordsMap /\ indexDataQueues[s] # NoQueue
            THEN BQ_enqueue(shardPrimary[s],
                     serializeObject(setRecords(newIndexOperation(FALSE), recordsMap[s])))
            ELSE shardPrimary[s]]
    /\ enqueued' = enqueued + Cardinality(DOMAIN recordsMap \cap Mapped)
    /\ sobs' = <<"put", recordsMap>>
    /\ UNCHANGED <<indexDataQueues, openInstances, localShards, spc,
                   closeAttempted, closeFailed, refreshes>>

\* Mutant of delete: the tenant id is not set on the operation.
delete_noTenantId(tenantId, tableName, recordsMap) ==
    /\ spc = "idle"
    /\ shardPrimary' =
         [s \in Shards |->
            IF s \in DOMAIN recordsMap /\ indexDataQueues[s] # NoQueue
            THEN BQ_enqueue(shardPrimary[s],
                     serializeObject(
                         setDeleteTableName(
                             setIds(newIndexOperation(TRUE), recordsMap[s]),
                             tableName)))
            ELSE shardPrimary[s]]
    /\ enqueued' = enqueued + Cardinality(DOMAIN recordsMap \cap Mapped)
    /\ sobs' = <<"delete", recordsMap, tenantId, tableName>>
    /\ UNCHANGED <<indexDataQueues, openInstances, localShards, spc,
                   closeAttempted, closeFailed, refreshes>>

\* delete(tenantId, tableName, ids)
delete(tenantId, tableName, recordsMap) ==
    /\ spc = "idle"
    /\ shardPrimary' =
         [s \in Shards |->
            IF s \in DOMAIN recordsMap /\ indexDataQueues[s] # NoQueue
            THEN BQ_enqueue(shardPrimary[s],
                     serializeObject(
                         setDeleteTableName(
                             setDeleteTenantId(
                                 setIds(newIndexOperation(TRUE), recordsMap[s]),
                                 tenantId),
                             tableName)))
            ELSE shardPrimary[s]]
    /\ enqueued' = enqueued + Cardinality(DOMAIN recordsMap \cap Mapped)
    /\ sobs' = <<"delete", recordsMap, tenantId, tableName>>
    /\ UNCHANGED <<indexDataQueues, openInstances, localShards, spc,
                   closeAttempted, closeFailed, refreshes>>

\* Mutant of put_fails: the operations enqueued before the failure are taken
\* back.
put_fails_rollback(recordsMap, failing, visited) ==
    /\ spc = "idle"
    /\ failing \in DOMAIN recordsMap \cap Mapped
    /\ visited \subseteq DOMAIN recordsMap \ {failing}
    /\ sobs' = <<"put failed", recordsMap, failing, visited>>
    /\ IOFailure("enqueue", "primaryQueue.enqueue")
    /\ UNCHANGED <<shardPrimary, enqueued, indexDataQueues, openInstances, localShards, spc,
                   closeAttempted, closeFailed, refreshes>>

\* put(records) in which dataList.enqueue throws for the entry of shard
\* `failing`: the loop over recordsMap.entrySet() has handled the entries of
\* the shards in `visited` (the map gives the entries in an order of its own),
\* and the exception ends the loop and the call.
put_fails(recordsMap, failing, visited) ==
    /\ spc = "idle"
    /\ failing \in DOMAIN recordsMap \cap Mapped
    /\ visited \subseteq DOMAIN recordsMap \ {failing}
    /\ shardPrimary' =
         [s \in Shards |->
            IF s \in visited /\ indexDataQueues[s] # NoQueue
            THEN BQ_enqueue(shardPrimary[s],
                     serializeObject(setRecords(newIndexOperation(FALSE), recordsMap[s])))
            ELSE shardPrimary[s]]
    /\ enqueued' = enqueued + Cardinality(visited \cap Mapped)
    /\ sobs' = <<"put failed", recordsMap, failing, visited>>
    /\ IOFailure("enqueue", "primaryQueue.enqueue")
    /\ UNCHANGED <<indexDataQueues, openInstances, localShards, spc,
                   closeAttempted, closeFailed, refreshes>>

\* delete(tenantId, tableName, ids) in which dataList.enqueue throws for the
\* entry of shard `failing`.
delete_fails(tenantId, tableName, recordsMap, failing, visited) ==
    /\ spc = "idle"
    /\ failing \in DOMAIN recordsMap \cap Mapped
    /\ visited \subseteq DOMAIN recordsMap \ {failing}
    /\ shardPrimary' =
         [s \in Shards |->
            IF s \in visited /\ indexDataQueues[s] # NoQueue
            THEN BQ_enqueue(shardPrimary[s],
                     serializeObject(
                         setDeleteTableName(
                             setDeleteTenantId(
                                 setIds(newIndexOperation(TRUE), recordsMap[s]),
                                 tenantId),
                             tableName)))
            ELSE shardPrimary[s]]
    /\ enqueued' = enqueued + Cardinality(visited \cap Mapped)
    /\ sobs' = <<"delete failed", recordsMap, failing, visited>>
    /\ IOFailure("enqueue", "primaryQueue.enqueue")
    /\ UNCHANGED <<indexDataQueues, openInstances, localShards, spc,
                   closeAttempted, closeFailed, refreshes>>

\* What queue.close() does to one queue object: primaryQueue.close() and then
\* secondaryQueue.close(); a close that throws leaves its instance open and
\* ends the call.
CloseOutcomes == {"closed", "primary throws", "secondary throws"}

\* The outcomes of queue.close() for every queue object of the map: close()
\* of a durable queue that is closed already does nothing and does not throw.
CloseResults ==
    {outcome \in [Mapped -> CloseOutcomes] :
        \A s \in Mapped :
           /\ outcome[s] = "primary throws"
                 => <<s, PRIMARY_QUEUE_SUFFIX, indexDataQueues[s]>> \in openInstances
           /\ outcome[s] = "secondary throws"
                 => <<s, SECONDARY_QUEUE_SUFFIX, indexDataQueues[s]>> \in openInstances}

StillOpen(s, g, outcome) ==
    CASE outcome = "closed" -> {}
      [] outcome = "primary throws" -> InstancesOf(s, g)
      [] outcome = "secondary throws" -> {<<s, SECONDARY_QUEUE_SUFFIX, g>>}

\* Mutant of closeQueues: no try/catch around queue.close(), so the first
\* IOException ends the loop (taken in the order of the shard index) and
\* leaves closeQueues.
closeQueues_noCatch(outcome) ==
    LET reached == {s \in Mapped : \A t \in Mapped : t < s => outcome[t] = "closed"} IN
    /\ openInstances' =
         (openInstances \ UNION {InstancesOf(s, indexDataQueues[s]) : s \in reached})
         \cup UNION {StillOpen(s, indexDataQueues[s], outcome[s]) \cap openInstances :
                       s \in reached}
    /\ closeAttempted' = reached
    /\ closeFailed' = {s \in reached : outcome[s] # "closed"}
    /\ sobs' = <<"closeQueues", \E s \in reached : outcome[s] # "closed">>

\* closeQueues(): close() on every queue object of the map; an IOException of
\* queue.close() is caught and logged inside the loop, so the loop goes on and
\* nothing is thrown.  The second component of sobs tells whether closeQueues
\* threw.
closeQueues(outcome) ==
    /\ openInstances' =
         (openInstances \ UNION {InstancesOf(s, indexDataQueues[s]) : s \in Mapped})
         \cup UNION {StillOpen(s, indexDataQueues[s], outcome[s]) \cap openInstances :
                       s \in Mapped}
    /\ closeAttempted' = Mapped
    /\ closeFailed' = {s \in Mapped : outcome[s] # "closed"}
    /\ sobs' = <<"closeQueues", FALSE>>

\* refreshLocalIndexShards(), first statement: this.closeQueues()
refresh_closeQueues(outcome) ==
    /\ spc = "idle"
    /\ refreshes < MaxRefreshes
    /\ closeQueues(outcome)
    /\ spc' = (IF sobs'[2] THEN "idle" ELSE "opening")
    /\ UNCHANGED <<indexDataQueues, shardPrimary, localShards, refreshes, enqueued>>

\* What the loop of refreshLocalIndexShards leaves behind: a new queue object
\* for the shards in done; for a failure on a secondary queue, also the primary
\* instance that the constructor had opened before.
Opened(done, failure, g) ==
    UNION {InstancesOf(s, g) : s \in done}
    \cup (IF failure[2] = SECONDARY_QUEUE_SUFFIX
          THEN {<<failure[1], PRIMARY_QUEUE_SUFFIX, g>>} ELSE {})

\* Mutant of refresh_open: the exception of a failed open is caught and the
\* call returns normally.
refresh_open_swallow(shards, failure, done) ==
    /\ spc = "opening"
    /\ IF failure = NoFailure THEN done = shards ELSE done \subseteq shards \ {failure[1]}
    /\ refreshes' = refreshes + 1
    /\ localShards' = shards
    /\ indexDataQueues' =
         [s \in Shards |-> IF s \in done THEN refreshes + 1 ELSE indexDataQueues[s]]
    /\ openInstances' = openInstances \cup Opened(done, failure, refreshes + 1)
    /\ spc' = "idle"
    /\ sobs' = <<"refresh", shards, failure>>
    /\ UNCHANGED <<shardPrimary, closeAttempted, closeFailed, enqueued>>

\* refreshLocalIndexShards(), the loop: a new queue object for every shard that
\* indexer.getLocalShards() reports; the other entries of the map stay.  When
\* createQueue fails for the queue `failure`, the AnalyticsException leaves the
\* loop and the call: the shards visited before (done) have their new queue
\* object, the others keep what the map held.  sobs records how the call
\* ended, the reported shards and the failure.
refresh_open(shards, failure, done) ==
    /\ spc = "opening"
    /\ IF failure = NoFailure THEN done = shards ELSE done \subseteq shards \ {failure[1]}
    /\ refreshes' = refreshes + 1
    /\ localShards' = shards
    /\ indexDataQueues' =
         [s \in Shards |-> IF s \in done THEN refreshes + 1 ELSE indexDataQueues[s]]
    /\ openInstances' = openInstances \cup Opened(done, failure, refreshes + 1)
    /\ spc' = "idle"
    /\ sobs' = <<IF failure = NoFailure THEN "refresh" ELSE "refresh failed", shards, failure>>
    /\ UNCHANGED <<shardPrimary, closeAttempted, closeFailed, enqueued>>

\* close()
close(outcome) ==
    /\ spc = "idle"
    /\ closeQueues(outcome)
    /\ UNCHANGED <<indexDataQueues, shardPrimary, localShards, spc, refreshes, enqueued>>

\* getIndexDataQueue(shardIndex): the entry of the map, NoQueue if there is none.
getIndexDataQueue(shardIndex) == indexDataQueues[shardIndex]

\* The variables of the single shard queue and of its callers.
queueVars == <<primaryQueue, secondaryQueue, fieldVars, gcCalls, pc, data, i, count, loaded, returned, unremoved, active,
               crashes, obs, scriptVars, consumerVars, pending, faultVars, formVars>>

\* put and delete read indexDataQueues and write only the durable queues;
\* refreshLocalIndexShards and close read and write only
\* indexDataQueues and the set of open instances.  The two groups are checked
\* apart: SpecRouting starts from the store as constructed for any set of
\* local shards, SpecLifecycle makes the calls that change the queue set.

\* SpecRouting: any sequence of put and delete calls by one thread.
RoutingNext ==
    \/ \E recordsMap \in ShardedBatches :
          enqueued < MaxStoreOps /\ put(recordsMap) /\ UNCHANGED queueVars
    \/ \E recordsMap \in ShardedBatches, tenantId \in TenantIds, tableName \in TableNames :
          enqueued < MaxStoreOps /\ delete(tenantId, tableName, recordsMap)
             /\ UNCHANGED queueVars

SpecRouting == StoreInit /\ [][RoutingNext]_vars

\* SpecRoutingFaults: put and delete calls by one thread, where the enqueue on
\* a shard's queue can fail with an I/O error; the behaviour is followed up to
\* the first call that fails.
RoutingFaultsNext ==
    \/ faults = <<>> /\ RoutingNext
    \/ \E recordsMap \in ShardedBatches :
          \E failing \in DOMAIN recordsMap, visited \in SUBSET (DOMAIN recordsMap) :
          /\ enqueued < MaxStoreOps /\ faults = <<>>
          /\ put_fails(recordsMap, failing, visited)
          /\ UNCHANGED <<primaryQueue, secondaryQueue, fieldVars, gcCalls, pc, data, i, count, loaded, returned, unremoved,
                         active, crashes, obs, scriptVars, consumerVars, pending, formVars>>
    \/ \E recordsMap \in ShardedBatches, tenantId \in TenantIds, tableName \in TableNames :
          \E failing \in DOMAIN recordsMap, visited \in SUBSET (DOMAIN recordsMap) :
          /\ enqueued < MaxStoreOps /\ faults = <<>>
          /\ delete_fails(tenantId, tableName, recordsMap, failing, visited)
          /\ UNCHANGED <<primaryQueue, secondaryQueue, fieldVars, gcCalls, pc, data, i, count, loaded, returned, unremoved,
                         active, crashes, obs, scriptVars, consumerVars, pending, formVars>>

SpecRoutingFaults == StoreInit /\ [][RoutingFaultsNext]_vars

\* SpecLifecycle: any sequence of refreshLocalIndexShards and close calls by
\* one coordinator thread; getIndexDataQueue reads the map in any state.
LifecycleNext ==
    \/ \E outcome \in CloseResults :
          refresh_closeQueues(outcome) /\ UNCHANGED queueVars
    \/ \E shards \in SUBSET Shards :
          \E failure \in {NoFailure} \cup OpenFailures(shards), done \in SUBSET shards :
             refresh_open(shards, failure, done) /\ UNCHANGED queueVars
    \/ \E outcome \in CloseResults : close(outcome) /\ UNCHANGED queueVars

SpecLifecycle == StoreInit /\ [][LifecycleNext]_vars

\* SpecQueueIds: queue objects are constructed and closed for any shard index
\* up to MaxShardIndex, at most two being open at a time; generation g tells
\* the queue objects of one shard apart.
newQueue(shardIndex, g) ==
    /\ Cardinality(openInstances) < 4
    /\ InstancesOf(shardIndex, g) \cap openInstances = {}
    /\ openInstances' = openInstances \cup InstancesOf(shardIndex, g)

closeQueue(shardIndex, g) ==
    /\ InstancesOf(shardIndex, g) \subseteq openInstances
    /\ openInstances' = openInstances \ InstancesOf(shardIndex, g)

QueueIdsNext ==
    \/ \E shardIndex \in 0..MaxShardIndex, g \in 1..MaxReopens :
          /\ newQueue(shardIndex, g)
          /\ UNCHANGED <<queueVars, enqueued, refreshes, indexDataQueues, shardPrimary,
                         localShards, spc, sobs, closeAttempted, closeFailed>>
    \/ \E shardIndex \in 0..MaxShardIndex, g \in 1..MaxReopens :
          /\ closeQueue(shardIndex, g)
          /\ UNCHANGED <<queueVars, enqueued, refreshes, indexDataQueues, shardPrimary,
                         localShards, spc, sobs, closeAttempted, closeFailed>>

SpecQueueIds == Init /\ [][QueueIdsNext]_vars

\* --------------------------------------- a refresh, seen from one shard queue
\* refreshLocalIndexShards for a shard that stays local, between two calls of
\* the consumer: the queue object is closed and a new LocalIndexDataQueue is
\* constructed over the same two durable queues; the consumer goes on with the
\* queue that getIndexDataQueue returns after the refresh.
refresh_reopen ==
    /\ pc = "idle"
    /\ refreshes' = refreshes + 1
    /\ pending' = IF refreshes = 0 THEN secondaryQueue \o primaryQueue ELSE pending
    /\ delivered' = <<>>
    /\ secondaryQueueInitialCount' = 0
    /\ secondaryProcessedCount' = 0
    /\ removeCount' = 0
    /\ gcCalls' = gcCalls
    /\ data' = NULL
    /\ i' = 0
    /\ count' = 0
    /\ loaded' = 0
    /\ returned' = <<>>
    /\ unremoved' = 0
    /\ active' = FALSE
    /\ obs' = <<"none">>
    /\ UNCHANGED <<primaryQueue, secondaryQueue, enqueued, pc, crashes>>

\* SpecRefresh: a producer and a consumer work on the queue in any way (phase
\* "work": sessions may be left without endDequeue and begun again); then
\* refreshLocalIndexShards is called, once or several times in a row (phase
\* "refreshed"); then the consumer drains the queue it gets: startDequeue, and
\* peekNext as long as isEmpty() is false (phases "loop", "peek", "drained").
RefreshInit ==
    /\ primaryQueue = <<>>
    /\ secondaryQueue = <<>>
    /\ secondaryQueueInitialCount = 0
    /\ secondaryProcessedCount = 0
    /\ removeCount = 0
    /\ gcCalls = <<0, 0>>
    /\ pc = "idle"
    /\ data = NULL
    /\ i = 0
    /\ count = 0
    /\ loaded = 0
    /\ enqueued = 0
    /\ returned = <<>>
    /\ unremoved = 0
    /\ active = FALSE
    /\ crashes = 0
    /\ obs = <<"none">>
    /\ phase = "work"
    /\ preCrash = <<>>
    /\ NoStore
    /\ NoForm

RefreshNext ==
    \/ phase # "refreshed" /\ enqueue /\ UNCHANGED <<scriptVars, extVars>>
    \/ phase = "work" /\ startDequeue /\ UNCHANGED <<scriptVars, extVars>>
    \/ phase = "work" /\ (pc = "idle" => removeCount < MaxPeeks) /\ peekNext
          /\ UNCHANGED <<scriptVars, extVars>>
    \/ phase = "work" /\ endDequeue /\ UNCHANGED <<scriptVars, extVars>>
    \/ phase \in {"work", "refreshed"} /\ refreshes < MaxReopens /\ refresh_reopen
          /\ phase' = "refreshed"
          /\ UNCHANGED <<preCrash, other, tid, overlapped, storeVars, faultVars, formVars>>
    \/ phase = "refreshed" /\ startDequeue /\ phase' = "loop" /\ UNCHANGED <<preCrash, extVars>>
    \/ phase = "loop" /\ isEmpty_call
          /\ phase' = (IF isEmpty THEN "drained" ELSE "peek") /\ UNCHANGED <<preCrash, extVars>>
    \/ phase = "peek" /\ peekNext /\ Deliver
          /\ phase' = (IF pc' = "idle" THEN "loop" ELSE "peek")
          /\ UNCHANGED <<preCrash, other, tid, overlapped, refreshVars, storeVars, faultVars, formVars>>

SpecRefresh == RefreshInit /\ [][RefreshNext]_vars

\* SpecRotate: the scripted caller of SpecScenario, where the process can
\* crash a second time, at any point of the session that replays the backlog
\* of the first crash.
RotateNext ==
    \/ ScenarioNext
    \/ phase = "second" /\ pc # "drain" /\ Crash /\ phase' = "down2" /\ UNCHANGED <<preCrash, extVars>>

SpecRotate == ScenarioInit /\ [][RotateNext]_vars

\* SpecAbandon: on a new queue, while the producer enqueues, the consumer
\* starts a session, makes k peekNext calls and, instead of endDequeue, calls
\* startDequeue again on the same queue object; preCrash records what the
\* abandoned session had returned.  The consumer may call isEmpty() between
\* two calls of either session.
AbandonNext ==
    \/ enqueue /\ UNCHANGED <<scriptVars, extVars>>
    \/ phase = "enq" /\ startDequeue /\ phase' = "first" /\ UNCHANGED <<preCrash, extVars>>
    \/ phase \in {"first", "again"} /\ (pc = "idle" => removeCount < MaxPeeks) /\ peekNext
          /\ UNCHANGED <<scriptVars, extVars>>
    \/ phase = "first" /\ startDequeue /\ phase' = "again" /\ preCrash' = returned
          /\ UNCHANGED extVars
    \/ phase \in {"first", "again"} /\ isEmpty_call /\ UNCHANGED <<scriptVars, extVars>>

SpecAbandon == ScenarioInit /\ [][AbandonNext]_vars

\* The stored bytes of entry k of primary get damaged on the disk: they no
\* longer decode.  The damaged bytes keep the position of the entry.
corruptEntry(k) ==
    /\ pc = "idle"
    /\ k \in 1..Len(primaryQueue)
    /\ \A n \in 1..Len(primaryQueue) : Decodable(primaryQueue[n])
    /\ primaryQueue' = [primaryQueue EXCEPT ![k] = <<"bad", @[2]>>]
    /\ UNCHANGED <<secondaryQueue, fieldVars, gcCalls, pc, data, i, count, loaded, enqueued, returned, unremoved,
                   active, crashes, obs>>

\* SpecCorrupt: the scripted caller of SpecScenario over a primary queue of
\* which one stored entry got damaged before the first session.
CorruptNext ==
    \/ ScenarioNext
    \/ \E k \in 1..MaxOps : phase = "enq" /\ corruptEntry(k) /\ UNCHANGED <<scriptVars, extVars>>

SpecCorrupt == ScenarioInit /\ [][CorruptNext]_vars

\* SpecGC: one producer and one consumer on one queue object that lives long
\* enough for the cleanup: the consumer makes any sequence of startDequeue,
\* peekNext and endDequeue calls, without a cap on the number of peekNext calls
\* until the cleanup has run MaxGCs times, and up to MaxPeeks calls after that.
GCGoesOn == gcCalls[1] < MaxGCs \/ removeCount < MaxPeeks

GCNext ==
    \/ enqueued < GCOps /\ enqueue /\ UNCHANGED <<scriptVars, extVars>>
    \/ GCGoesOn /\ startDequeue /\ UNCHANGED <<scriptVars, extVars>>
    \/ (pc = "idle" => GCGoesOn) /\ peekNext /\ UNCHANGED <<scriptVars, extVars>>
    \/ (pc = "idle" => GCGoesOn) /\ endDequeue /\ UNCHANGED <<scriptVars, extVars>>

SpecGC == Init /\ [][GCNext]_vars

\* SpecGCFaults: the queue object of SpecGC, where a gc() call of the cleanup
\* can throw IOException.
GCFaultsNext ==
    \/ GCNext
    \/ \E call \in {"primaryQueue.gc", "secondaryQueue.gc"} :
          /\ Len(faults) < MaxFaults
          /\ peekNext_replay_dequeue_gc_fails(call)
          /\ UNCHANGED <<scriptVars, consumerVars, refreshVars, storeVars, formVars>>
    \/ \E call \in {"primaryQueue.gc", "secondaryQueue.gc"} :
          /\ Len(faults) < MaxFaults
          /\ peekNext_fresh_dequeue_gc_fails(call)
          /\ UNCHANGED <<scriptVars, consumerVars, refreshVars, storeVars, formVars>>

SpecGCFaults == Init /\ [][GCFaultsNext]_vars

\* SpecFaults: the scripted caller of SpecScenario, where calls of the durable
\* queue primitive can throw IOException: in enqueue, at each queue call of
\* peekNext and endDequeue of either session, and in the constructor that runs
\* at the restart after the crash.
FaultsInit == ScenarioInit

\* The step is a failure of the primitive.
Faulty ==
    /\ Len(faults) < MaxFaults
    /\ UNCHANGED <<scriptVars, consumerVars, refreshVars, storeVars, formVars>>

FaultsNext ==
    \/ ScenarioNext
    \/ phase = "enq" /\ enqueue_fails /\ Faulty
    \/ \E call \in {"secondaryQueue.peek", "secondaryQueue.enqueue"} :
          phase \in {"first", "second"} /\ peekNext_replay_enqueue_fails(call) /\ Faulty
    \/ phase \in {"first", "second"} /\ peekNext_replay_dequeue_fails /\ Faulty
    \/ \E call \in {"primaryQueue.peek", "secondaryQueue.enqueue"} :
          phase \in {"first", "second"} /\ peekNext_fresh_enqueue_fails(call) /\ Faulty
    \/ phase \in {"first", "second"} /\ peekNext_fresh_dequeue_fails /\ Faulty
    \/ phase \in {"first", "second"} /\ endDequeue_removeAll_fails /\ Faulty
    \/ phase \in {"first", "second"} /\ endDequeue_dequeue_fails /\ Faulty
    \/ \E suffix \in {PRIMARY_QUEUE_SUFFIX, SECONDARY_QUEUE_SUFFIX} :
          phase = "down" /\ createQueue_fails(suffix) /\ Faulty

SpecFaults == FaultsInit /\ [][FaultsNext]_vars

\* SpecSessionFaults: one producer and one consumer on one queue object, no
\* crash.  The consumer makes any sequence of startDequeue, peekNext and
\* endDequeue calls, and the queue calls of enqueue, peekNext and endDequeue can
\* throw IOException.
FreeFault ==
    /\ Len(faults) < MaxFaults
    /\ UNCHANGED <<scriptVars, consumerVars, refreshVars, storeVars, formVars>>

SessionFaultsNext ==
    \/ enqueue /\ UNCHANGED <<scriptVars, extVars>>
    \/ startDequeue /\ UNCHANGED <<scriptVars, extVars>>
    \/ endDequeue /\ UNCHANGED <<scriptVars, extVars>>
    \/ (pc = "idle" => removeCount < MaxPeeks) /\ peekNext /\ UNCHANGED <<scriptVars, extVars>>
    \/ enqueue_fails /\ FreeFault
    \/ \E call \in {"secondaryQueue.peek", "secondaryQueue.enqueue"} :
          peekNext_replay_enqueue_fails(call) /\ FreeFault
    \/ peekNext_replay_dequeue_fails /\ FreeFault
    \/ \E call \in {"primaryQueue.peek", "secondaryQueue.enqueue"} :
          peekNext_fresh_enqueue_fails(call) /\ FreeFault
    \/ peekNext_fresh_dequeue_fails /\ FreeFault
    \/ endDequeue_removeAll_fails /\ FreeFault
    \/ endDequeue_dequeue_fails /\ FreeFault

SpecSessionFaults == Init /\ [][SessionFaultsNext]_vars

\* =================================================================== claims
Held == Range(primaryQueue) \cup Range(secondaryQueue)

Min(a, b) == IF a <= b THEN a ELSE b

\* The first n operations in the order of enqueue.
FirstOps(n) == [k \in 1..n |-> IndexOperation(k)]

\* C1 (Spec): only the steps of endDequeue take an operation out of the union
\* of primary and secondary.  Every other step, the two queue calls of each
\* branch of peekNext and a crash included, leaves every operation that was in
\* primary or in secondary in one of the two.
C1_OnlyEndDequeueRemoves ==
    [][endDequeue \/ (Range(primaryQueue) \cup Range(secondaryQueue))
                        \subseteq (Range(primaryQueue') \cup Range(secondaryQueue'))]_vars

\* A crash fell between the append and the remove of a fresh-branch peekNext:
\* the operation is in both queues of the restarted process.
C1_Witness ==
    /\ crashes >= 1
    /\ pc = "idle"
    /\ primaryQueue # <<>>
    /\ Head(primaryQueue) \in Range(secondaryQueue)

\* C2 (SpecScenario): N operations are enqueued, startDequeue is called,
\* peekNext completes k times and the process crashes between two calls.  On
\* the new object, after startDequeue, secondaryQueueInitialCount is k, the
\* first k peekNext calls return the k operations returned before the crash in
\* the same order, and primary is not touched before they have been returned.
C2_CrashReplay ==
    phase = "second" =>
        /\ secondaryQueueInitialCount = Len(preCrash)
        /\ preCrash = FirstOps(Len(preCrash))
        /\ \A j \in 1..Min(Len(returned), Len(preCrash)) : returned[j] = preCrash[j]
        /\ Len(returned) <= Len(preCrash) =>
               primaryQueue = [j \in 1..(enqueued - Len(preCrash)) |->
                                  getBytes(IndexOperation(Len(preCrash) + j))]

\* Two operations were returned before the crash; the second session has
\* returned them again and then a third from primary.
C2_Witness ==
    /\ phase = "second"
    /\ Len(preCrash) = 2
    /\ Len(returned) = 3
    /\ returned[3] = IndexOperation(3)

\* C3 (SpecScenario): with no crash, the first session on a new queue returns
\* the operations in the order of enqueue, each once; when it has returned all
\* N and endDequeue has returned, isEmpty() is true and secondary is empty.
C3_FifoSession ==
    /\ phase \in {"first", "done"} =>
           /\ Len(returned) <= enqueued
           /\ returned = FirstOps(Len(returned))
    /\ (phase = "done" /\ Len(returned) = enqueued) =>
           /\ isEmpty
           /\ secondaryQueue = <<>>
           /\ primaryQueue = <<>>

\* Three operations were enqueued, returned by one session and confirmed.
C3_Witness ==
    /\ phase = "done"
    /\ enqueued = 3
    /\ Len(returned) = 3

\* C4 (SpecLive): at-least-once delivery.  Under the weakly fair consumer loop
\* with at most MaxCrashes crashes at arbitrary points, every operation that is
\* ever enqueued is at some moment returned by peekNext.
C4_AtLeastOnce ==
    \A n \in 1..MaxOps :
        [](enqueued < n) \/ <>(obs[1] = "peekNext" /\ obs[2] = IndexOperation(n))

\* After two crashes the third operation is returned.
C4_Witness ==
    /\ crashes = 2
    /\ obs[1] = "peekNext"
    /\ obs[2] = IndexOperation(3)
    /\ secondaryQueueInitialCount > 0

\* C5 (Spec): every operation a step of endDequeue removes from secondary in a
\* session was returned by peekNext since the startDequeue of that session.
C5_ErasedOnlyIfReturned ==
    [][active =>
         /\ endDequeue_removeAll =>
                \A b \in Range(secondaryQueue) : fromBytes(b) \in Range(returned)
         /\ endDequeue_dequeue =>
                fromBytes(Head(secondaryQueue)) \in Range(returned)]_vars

\* C6 (Spec): when endDequeue has returned, secondary is what it was when the
\* call began without its first secondaryProcessedCount items (empty when the
\* count reaches its size), and no step of endDequeue changes primary.
C6_DrainExactly ==
    /\ [](obs[1] = "endDequeue" /\ pc = "idle" =>
             /\ secondaryQueue = Drop(obs[2], secondaryProcessedCount)
             /\ Len(secondaryQueue) = Max(0, Len(obs[2]) - secondaryProcessedCount))
    /\ [][endDequeue => primaryQueue' = primaryQueue]_vars

\* endDequeue removed one item by the loop and left the rest.
C6_Witness ==
    /\ obs[1] = "endDequeue"
    /\ pc = "idle"
    /\ secondaryProcessedCount = 1
    /\ Len(obs[2]) = 3
    /\ Len(secondaryQueue) = 2

\* C7 (Spec): isEmpty() returns true exactly when secondaryProcessedCount >=
\* secondaryQueueInitialCount and primary holds nothing, and changes no state.
C7_IsEmpty ==
    [][isEmpty_call =>
         /\ obs'[1] = "isEmpty"
         /\ obs'[2] = (secondaryProcessedCount >= secondaryQueueInitialCount
                         /\ Len(primaryQueue) = 0)
         /\ UNCHANGED <<progVars, pc, data, i, count, loaded>>]_vars

\* isEmpty() returned true while secondary holds unconfirmed items.
C7_Witness ==
    /\ obs = <<"isEmpty", TRUE>>
    /\ Len(secondaryQueue) >= 2
    /\ Len(primaryQueue) = 0

\* C8 (SpecScenario): size() returns the number of items of primary; in the
\* first session on a new queue, and after its endDequeue, that is the number
\* of operations enqueued minus the number peekNext returned; no step of
\* endDequeue changes it.
C8_Size ==
    /\ [][size_call =>
            /\ obs'[1] = "size"
            /\ obs'[2] = Len(primaryQueue)
            /\ phase \in {"enq", "first", "done"} => obs'[2] = enqueued - Len(returned)]_vars
    /\ [][endDequeue => Len(primaryQueue') = Len(primaryQueue)]_vars

\* Three enqueued, two returned and in flight: size() returned 1.
C8_Witness ==
    /\ obs = <<"size", 1>>
    /\ phase = "first"
    /\ enqueued = 3
    /\ Len(returned) = 2
    /\ Len(secondaryQueue) = 2

\* C9 as stated (SpecSessionFaults): in an active session secondary.size() <=
\* primary.size() + secondaryQueueInitialCount.
C9_AsStated ==
    active => Len(secondaryQueue) <= Len(primaryQueue) + secondaryQueueInitialCount

\* C9 amended (SpecSessionFaults): in an active session secondary.size() <=
\* max(secondaryQueueInitialCount, secondaryProcessedCount), plus one for
\* every peekNext call of the session whose dequeue threw IOException after the
\* append to secondary, plus one while a peekNext is between its append and its
\* remove.
C9_Amended ==
    active => Len(secondaryQueue) <=
                  Max(secondaryQueueInitialCount, secondaryProcessedCount)
                  + unremoved
                  + (IF pc \in {"replay", "fresh"} THEN 1 ELSE 0)

\* primaryQueue.dequeue() threw in a peekNext of the session after the append,
\* and a later peekNext returned: secondary holds one item more than
\* max(initial count, processed count), and more than primary plus the initial
\* count.
C9_Witness ==
    /\ active
    /\ pc = "idle"
    /\ unremoved = 1
    /\ secondaryProcessedCount >= 1
    /\ Len(secondaryQueue) = Max(secondaryQueueInitialCount, secondaryProcessedCount) + 1
    /\ Len(secondaryQueue) > Len(primaryQueue) + secondaryQueueInitialCount

\* A session without a failure moved two items out of primary: secondary is at
\* max(initial count, processed count) and longer than primary plus the
\* initial count.
C9_WitnessNoFailure ==
    /\ active
    /\ pc = "idle"
    /\ faults = <<>>
    /\ Len(secondaryQueue) = Max(secondaryQueueInitialCount, secondaryProcessedCount)
    /\ Len(secondaryQueue) > Len(primaryQueue) + secondaryQueueInitialCount

\* C10 (Spec): on one queue object secondaryProcessedCount changes only by
\* startDequeue, which sets it to 0, and by the completing step of a peekNext,
\* which adds 1 (a restart builds a new object, whose count is 0); endDequeue,
\* enqueue, isEmpty and size leave it alone; it equals the number of items
\* peekNext returned since startDequeue.
C10_ProcessedCount ==
    /\ [](secondaryProcessedCount = Len(returned))
    /\ [][secondaryProcessedCount' # secondaryProcessedCount =>
             \/ startDequeue /\ secondaryProcessedCount' = 0
             \/ Crash /\ secondaryProcessedCount' = 0
             \/ (peekNext_replay_dequeue \/ peekNext_fresh_dequeue)
                  /\ secondaryProcessedCount' = secondaryProcessedCount + 1]_vars
    /\ [][(peekNext_replay_dequeue \/ peekNext_fresh_dequeue) =>
             secondaryProcessedCount' = secondaryProcessedCount + 1]_vars
    /\ [][(endDequeue \/ enqueue \/ isEmpty_call \/ size_call) =>
             secondaryProcessedCount' = secondaryProcessedCount]_vars

\* A session rotated a backlog item and moved a fresh one, then ended: the
\* count is still 2.
C10_Witness ==
    /\ ~active
    /\ obs[1] = "endDequeue"
    /\ pc = "idle"
    /\ secondaryQueueInitialCount = 1
    /\ secondaryProcessedCount = 2

\* C11 (Spec): enqueue appends the bytes of the operation at the tail of
\* primary and changes neither secondary nor secondaryQueueInitialCount,
\* secondaryProcessedCount or removeCount, whatever the state of the session
\* and wherever the consumer stands inside a call.
C11_EnqueueFrame ==
    [][enqueue =>
         /\ primaryQueue' = primaryQueue \o <<getBytes(IndexOperation(enqueued + 1))>>
         /\ secondaryQueue' = secondaryQueue
         /\ secondaryQueueInitialCount' = secondaryQueueInitialCount
         /\ secondaryProcessedCount' = secondaryProcessedCount
         /\ removeCount' = removeCount]_vars

\* The third operation was enqueued behind the second while the session was
\* replaying a backlog: one of two backlog items has been returned.
C11_Witness ==
    /\ active
    /\ secondaryQueueInitialCount = 2
    /\ secondaryProcessedCount = 1
    /\ removeCount = 3
    /\ primaryQueue = <<getBytes(IndexOperation(3))>>

\* The operations whose bytes are in a durable queue, in queue order.
OpsOf(q) == [k \in 1..Len(q) |-> fromBytes(q[k])]

\* C12 (SpecConcurrent): with one producer calling enqueue between any two
\* queue calls of one protocol-following consumer, and no crash, the operations
\* returned so far followed by the operations still in primary are exactly the
\* operations enqueued, in the order of enqueue: none is lost, none is returned
\* twice, and they are returned in the order of enqueue.
C12_ProducerConsumer ==
    delivered \o OpsOf(primaryQueue) = FirstOps(enqueued)

\* The third operation was enqueued while the peekNext that returns the second
\* was between its two queue calls, in a second session; all three came back.
C12_Witness ==
    /\ delivered = FirstOps(3)
    /\ removeCount = 3
    /\ secondaryProcessedCount = 1
    /\ active

\* An operation was enqueued and is neither in primary nor in secondary, and
\* peekNext never returned it.
Lost ==
    \E n \in 1..enqueued :
        /\ IndexOperation(n) \notin Range(OpsOf(primaryQueue))
        /\ IndexOperation(n) \notin Range(OpsOf(secondaryQueue))
        /\ IndexOperation(n) \notin Range(delivered)

\* peekNext returned one operation twice.
Duplicated ==
    \E j, k \in 1..Len(delivered) : j < k /\ delivered[j] = delivered[k]

\* C13 (SpecTwoConsumers): two consumer threads interleaving their calls on one
\* queue, with no crash, reach a state where an operation is lost or was
\* returned twice (the witness); and that happens only in executions where one
\* thread began a session while the other was inside one.
C13_OnlyWhenSessionsOverlap ==
    (Lost \/ Duplicated) => overlapped

\* Both threads read the same head of primary: it was returned twice, and the
\* operation behind it was removed from primary without being moved to secondary.
C13_Witness ==
    /\ Lost
    /\ Duplicated
    /\ crashes = 0

\* The items an operation carries: the ids of a delete, the records of a put.
ItemsOf(indexOp) == IF indexOp.delete THEN indexOp.ids ELSE indexOp.records

\* The bytes a step appended to the primary queue of shard s.
Added(s) == SubSeq(shardPrimary'[s], Len(shardPrimary[s]) + 1, Len(shardPrimary'[s]))

\* The operations among the bytes q that carry item r.
Carrying(q, r) == {k \in 1..Len(q) : r \in Range(ItemsOf(deserializeObject(q[k])))}

\* The step is the put or the delete that sobs records after it, with the
\* sharded map sobs'[2] and, for a delete, the arguments sobs'[3] and sobs'[4].
PutStep == sobs'[1] = "put" /\ put(sobs'[2])

DeleteStep == sobs'[1] = "delete" /\ delete(sobs'[3], sobs'[4], sobs'[2])

\* C14 (SpecRouting): a put or delete step enqueues each item of the batch into
\* the queue of the shard the router assigned it to, once, when that shard has a
\* queue in the map, and into no queue when it has none (no error: the step
\* completes); the item reaches no other shard's queue, what a queue held
\* before stays, and the queue of a shard with no entry in the sharded map, or
\* with no queue object, is unchanged.
C14_Routing ==
    [][(PutStep \/ DeleteStep) =>
          LET recordsMap == sobs'[2] IN
          \A s \in Shards :
             /\ SubSeq(shardPrimary'[s], 1, Len(shardPrimary[s])) = shardPrimary[s]
             /\ (s \notin DOMAIN recordsMap \/ indexDataQueues[s] = NoQueue)
                   => shardPrimary'[s] = shardPrimary[s]
             /\ s \in DOMAIN recordsMap =>
                   \A r \in Range(recordsMap[s]) :
                      /\ Cardinality(Carrying(Added(s), r))
                            = (IF indexDataQueues[s] = NoQueue THEN 0 ELSE 1)
                      /\ \A t \in Shards \ {s} : Carrying(Added(t), r) = {}]_vars

\* A put of two records, one routed to shard 1 and one to shard 2, when only
\* shard 1 has a queue, which held one operation already: shard 1 got the
\* operation with its record, the record of shard 2 was dropped.
C14_Witness ==
    /\ sobs[1] = "put"
    /\ sobs[2] = (1 :> <<"r1">>) @@ (2 :> <<"r2">>)
    /\ Mapped = {1}
    /\ Len(shardPrimary[1]) = 2
    /\ Carrying(shardPrimary[1], "r1") = {2}
    /\ shardPrimary[2] = <<>>

\* C15 (SpecRouting): for every shard of the sharded map that has a queue, put
\* appends exactly one IndexOperation with delete = false whose records are
\* that shard's list, and delete appends exactly one with delete = true whose
\* ids are that shard's list and whose tenant id and table name are the
\* arguments of the call.
C15_OperationShape ==
    [][/\ PutStep =>
             \A s \in DOMAIN sobs'[2] \cap Mapped :
                /\ Len(Added(s)) = 1
                /\ ~deserializeObject(Added(s)[1]).delete
                /\ deserializeObject(Added(s)[1]).records = sobs'[2][s]
       /\ DeleteStep =>
             \A s \in DOMAIN sobs'[2] \cap Mapped :
                /\ Len(Added(s)) = 1
                /\ deserializeObject(Added(s)[1]).delete
                /\ deserializeObject(Added(s)[1]).ids = sobs'[2][s]
                /\ deserializeObject(Added(s)[1]).deleteTenantId = sobs'[3]
                /\ deserializeObject(Added(s)[1]).deleteTableName = sobs'[4]]_vars

\* A delete of two ids routed to two shards that both have a queue: each queue
\* ends with a delete operation for its id, tenant 7 and table T.
C15_Witness ==
    /\ sobs[1] = "delete"
    /\ sobs[2] = (1 :> <<"r1">>) @@ (2 :> <<"r2">>)
    /\ Mapped = {1, 2}
    /\ \A s \in {1, 2} :
          /\ shardPrimary[s] # <<>>
          /\ deserializeObject(shardPrimary[s][Len(shardPrimary[s])])
                = [delete |-> TRUE, ids |-> sobs[2][s], deleteTenantId |-> 7,
                   deleteTableName |-> "T", records |-> NULL]

\* C16 (SpecRouting): put and delete enqueue an IndexOperation for a shard only
\* if that shard's list has at least one item, so no queue ever holds an
\* operation that carries no item.
C16_NoEmptyOperation ==
    \A s \in Shards :
       \A k \in 1..Len(shardPrimary[s]) :
          ItemsOf(deserializeObject(shardPrimary[s][k])) # <<>>

\* C17 (SpecLifecycle): after every refreshLocalIndexShards that returned, the
\* map holds a queue for exactly the shards the indexer reported as local, and
\* getIndexDataQueue returns no queue for any other shard.
C17_MappingIsLocalShards ==
    spc = "idle" =>
       /\ Mapped = localShards
       /\ \A s \in Shards \ localShards : getIndexDataQueue(s) = NoQueue

\* C18 (SpecLifecycle): closeQueues, and so close(), never throws; it calls
\* close on the queue object of every shard of the map, also when the close of
\* some of them failed; and a refresh whose closeQueues met failures still
\* leaves, for every local shard, a new queue object with both its durable
\* queues open.
C18_BestEffortClose ==
    /\ sobs[1] = "closeQueues" => (~sobs[2] /\ closeAttempted = Mapped)
    /\ sobs[1] = "refresh" =>
          \A s \in localShards :
             /\ indexDataQueues[s] = refreshes
             /\ InstancesOf(s, refreshes) \subseteq openInstances

\* A refresh for the local shards 1 and 2 whose closeQueues failed on the queue
\* of shard 1: the queue of shard 2 was closed all the same, and both shards
\* have the queue object of this refresh.
C18_Witness ==
    /\ sobs[1] = "refresh"
    /\ refreshes = 2
    /\ localShards = {1, 2}
    /\ closeFailed = {1}
    /\ closeAttempted = {1, 2}
    /\ InstancesOf(2, 1) \cap openInstances = {}
    /\ \A s \in {1, 2} : InstancesOf(s, 2) \subseteq openInstances

\* C19 (SpecLifecycle): no durable queue (a shard index and a suffix) is open
\* in two instances at once, also when a close attempt failed.
C19_OneOpenInstance ==
    \A x, y \in openInstances : (x[1] = y[1] /\ x[2] = y[2]) => x[3] = y[3]

\* C20 as stated (SpecRefresh): after refreshLocalIndexShards, called once or
\* twice in a row, draining the queue returns every operation that was enqueued
\* and not confirmed at the refresh, in the order in which they were enqueued.
C20_AsStated ==
    refreshes > 0 =>
       /\ \A j, k \in 1..Len(delivered) : j < k => delivered[j].id < delivered[k].id
       /\ phase = "drained" => Range(OpsOf(pending)) \subseteq Range(delivered)

\* C20, amended (SpecRefresh): after refreshLocalIndexShards, called once or
\* twice in a row for an unchanged shard set, draining the queue returns every
\* operation that was enqueued and not confirmed at the refresh, those in
\* flight in secondary included: the same operations in the order in which the
\* two durable queues held them (secondary, then primary) when the refresh
\* happened.  While the drain runs, what it returned so far is the beginning of
\* that sequence; when it is over, all of it was returned.
C20_RefreshPreserves ==
    refreshes > 0 =>
       /\ \A k \in 1..Min(Len(delivered), Len(pending)) : delivered[k] = fromBytes(pending[k])
       /\ phase = "drained" => Len(delivered) >= Len(pending)

\* Two refreshes in a row found two operations in flight in secondary, the
\* second of them ahead of the first after a partial replay, and one operation
\* in primary; the drain returned all three in that order.
C20_Witness ==
    /\ phase = "drained"
    /\ refreshes = 2
    /\ OpsOf(pending) = <<IndexOperation(2), IndexOperation(1), IndexOperation(3)>>
    /\ delivered = OpsOf(pending)

\* C21 (SpecLifecycle): refreshLocalIndexShards ends with an error whenever the
\* opening of the primary or of the secondary durable queue of a local shard
\* failed, and returns normally only when every open succeeded.
C21_OpenFailureFails ==
    /\ sobs[1] = "refresh" => sobs[3] = NoFailure
    /\ sobs[1] = "refresh failed" => sobs[3] \in OpenFailures(localShards)

\* A refresh for the local shards 1 and 2 failed on the secondary queue of
\* shard 2 after shard 1 got its new queue object; the primary instance opened
\* for shard 2 stays open and the map keeps the old queue object of shard 2.
C21_Witness ==
    /\ sobs[1] = "refresh failed"
    /\ sobs[3] = <<2, SECONDARY_QUEUE_SUFFIX>>
    /\ localShards = {1, 2}
    /\ indexDataQueues[1] = 2
    /\ indexDataQueues[2] = 1
    /\ <<2, PRIMARY_QUEUE_SUFFIX, 2>> \in openInstances

\* C22 (SpecFaults): whenever a call of the durable queue primitive throws
\* IOException inside enqueue, peekNext or endDequeue, or while a queue is
\* opened, the caller of that operation gets an AnalyticsException that wraps
\* the IOException; the operation ends there (it is not inside a call any more)
\* and has not run the failed queue call again (both queues are as the failing
\* call found them), and a failed peekNext or endDequeue did not return normally.
C22_IOFailureReachesCaller ==
    [][faults' # faults =>
          LET f == faults'[Len(faults')] IN
          /\ thrown' = <<"AnalyticsException", "IOException", f[1]>>
          /\ pc' = "idle"
          /\ primaryQueue' = primaryQueue
          /\ secondaryQueue' = secondaryQueue
          /\ f[1] = "peekNext" => obs'[1] = "peekNext failed"
          /\ f[1] = "endDequeue" => obs'[1] = "endDequeue failed"]_vars

\* primaryQueue.dequeue() threw inside a fresh-branch peekNext: the caller got
\* the AnalyticsException, and the item that was appended to secondary is
\* still at the head of primary.
C22_Witness ==
    /\ faults = <<<<"peekNext", "primaryQueue.dequeue">>>>
    /\ thrown = <<"AnalyticsException", "IOException", "peekNext">>
    /\ pc = "idle"
    /\ primaryQueue # <<>>
    /\ secondaryQueue = <<Head(primaryQueue)>>

\* C23 (SpecCorrupt), as stated: an entry whose bytes failed to decode blocks
\* the queue.  Entries get damaged only in primary, so an undecodable entry of
\* secondary is one that a peekNext took and failed to decode; no peekNext
\* returns an operation that was enqueued after such an entry while the entry
\* is still stored.
C23_CorruptEntryBlocks ==
    [][Len(returned') = Len(returned) + 1 =>
          \A k \in 1..Len(secondaryQueue') :
              ~Decodable(secondaryQueue'[k]) => obs'[2].id < secondaryQueue'[k][2]]_vars

\* C24 (SpecQueueIds): a queue object of shard s is on exactly two durable
\* queues, with the ids s+"P" and s+"S" in the one staging directory; an
\* instance opened by another queue object of the same shard (a reopening) is
\* on the same durable queue as the one of the same role; and two instances of
\* different (shard, role) are never on the same durable queue.
C24_QueueIds ==
    /\ \A x \in openInstances :
          InstancesOf(x[1], x[3]) \subseteq openInstances =>
              LET mine == {DurableQueue(inst) : inst \in InstancesOf(x[1], x[3])} IN
              /\ mine = {<<DEFAULT_LOCAL_INDEX_STAGING_LOCATION, IntToString(x[1]) \o "P">>,
                         <<DEFAULT_LOCAL_INDEX_STAGING_LOCATION, IntToString(x[1]) \o "S">>}
              /\ Cardinality(mine) = 2
    /\ \A a, b \in openInstances :
          DurableQueue(a) = DurableQueue(b) <=> (a[1] = b[1] /\ a[2] = b[2])

\* The queue objects of the shards 1 and 11 are open, the one of shard 11
\* being a reopened one.
C24_Witness == openInstances = InstancesOf(1, 1) \cup InstancesOf(11, 2)

\* C25 (SpecGCFaults): a peekNext that returns an operation adds 1 to
\* removeCount; when that makes the counter exceed QUEUE_CLEANUP_THRESHOLD the
\* call runs gc() once on primary and once on secondary and leaves the counter
\* at 0.  A peekNext whose cleanup throws has added 1 to the counter, has not
\* reset it, and ran gc() on primary only when the gc() of secondary is the
\* call that threw; its caller gets the AnalyticsException.  No other step
\* (enqueue, startDequeue, endDequeue, a peekNext that fails to decode, the
\* first half of a peekNext) changes the counter or runs gc().
C25_GcCounter ==
    [][IF Len(returned') = Len(returned) + 1
       THEN IF removeCount + 1 > QUEUE_CLEANUP_THRESHOLD
            THEN removeCount' = 0 /\ gcCalls' = <<gcCalls[1] + 1, gcCalls[2] + 1>>
            ELSE removeCount' = removeCount + 1 /\ gcCalls' = gcCalls
       ELSE IF faults' # faults
            THEN /\ removeCount' = removeCount + 1
                 /\ removeCount' > QUEUE_CLEANUP_THRESHOLD
                 /\ gcCalls' = IF faults'[Len(faults')][2] = "secondaryQueue.gc"
                               THEN <<gcCalls[1] + 1, gcCalls[2]>>
                               ELSE gcCalls
                 /\ thrown' = <<"AnalyticsException", "IOException", "peekNext">>
                 /\ obs'[1] = "peekNext failed"
            ELSE removeCount' = removeCount /\ gcCalls' = gcCalls]_vars

\* secondaryQueue.gc() threw in the peekNext call number
\* QUEUE_CLEANUP_THRESHOLD + 1: primary was compacted, the counter stays above
\* the threshold and the moved item is in secondary.
C25_WitnessGcFails ==
    /\ faults = <<<<"peekNext", "secondaryQueue.gc">>>>
    /\ gcCalls = <<1, 0>>
    /\ removeCount = QUEUE_CLEANUP_THRESHOLD + 1
    /\ secondaryQueue # <<>>

\* The peekNext call number QUEUE_CLEANUP_THRESHOLD + 1 of the queue object
\* has returned: both queues were compacted once and the counter is 0.
C25_Witness ==
    /\ gcCalls = <<1, 1>>
    /\ removeCount = 0
    /\ obs[1] = "peekNext"

\* C26 (SpecGC): the peekNext call that runs the cleanup returns the operation
\* it took, and leaves primary, secondary, secondaryProcessedCount and
\* secondaryQueueInitialCount exactly as the call leaves them when it does not
\* run the cleanup: the taken item removed from the head of its source queue
\* (it was appended to secondary by the first half of the call), the other
\* queue unchanged, the processed count one higher.  As the later calls read
\* nothing else, their results are the same with and without the cleanup.
C26_CompactionNeutral ==
    [][gcCalls' # gcCalls =>
          /\ obs' = <<"peekNext", fromBytes(data)>>
          /\ returned' = Append(returned, fromBytes(data))
          /\ secondaryProcessedCount' = secondaryProcessedCount + 1
          /\ secondaryQueueInitialCount' = secondaryQueueInitialCount
          /\ data = secondaryQueue[Len(secondaryQueue)]
          /\ IF pc = "replay"
             THEN /\ primaryQueue' = primaryQueue
                  /\ data = Head(secondaryQueue)
                  /\ secondaryQueue' = Tail(secondaryQueue)
             ELSE /\ data = Head(primaryQueue)
                  /\ primaryQueue' = Tail(primaryQueue)
                  /\ secondaryQueue' = secondaryQueue]_vars

\* The cleanup has run in a call that left items in both queues, and the
\* consumer has made a further peekNext call after it.
C26_Witness ==
    /\ gcCalls = <<1, 1>>
    /\ removeCount = 1
    /\ primaryQueue # <<>>
    /\ secondaryQueue # <<>>
    /\ obs[1] = "peekNext"

\* C27 (Spec): a peekNext call takes the head of secondary exactly when
\* secondaryProcessedCount < secondaryQueueInitialCount, and the head of
\* primary otherwise.  As long as a counted backlog item is still to be
\* returned in the session, no step removes an item from primary (primary only
\* grows at its tail) and any operation returned is the head of secondary.
C27_ReplayFirst ==
    [][/\ (pc = "idle" /\ pc' = "replay") =>
             /\ secondaryProcessedCount < secondaryQueueInitialCount
             /\ data' = Head(secondaryQueue)
       /\ (pc = "idle" /\ pc' = "fresh") =>
             /\ ~(secondaryProcessedCount < secondaryQueueInitialCount)
             /\ data' = Head(primaryQueue)
       /\ secondaryProcessedCount < secondaryQueueInitialCount =>
             /\ Len(primaryQueue') >= Len(primaryQueue)
             /\ SubSeq(primaryQueue', 1, Len(primaryQueue)) = primaryQueue
             /\ pc' # "fresh"
             /\ Len(returned') = Len(returned) + 1 => obs'[2] = fromBytes(Head(secondaryQueue))]_vars

\* A peekNext is inside the replay branch while primary holds fresh items.
C27_Witness ==
    /\ pc = "replay"
    /\ secondaryProcessedCount < secondaryQueueInitialCount
    /\ primaryQueue # <<>>
    /\ data = Head(secondaryQueue)

\* C28 (Spec): a replay-branch peekNext first appends the head of secondary to
\* its tail and then removes the head.  With `before` the secondary queue as
\* the call found it, the call returns the operation at the head of `before`
\* and leaves secondary as `before` rotated by one: the same length and the
\* same items, the returned item now at the tail.  Neither half of the call
\* changes primary.
C28_ReplayRotates ==
    [][/\ (pc = "idle" /\ pc' = "replay") =>
             /\ secondaryQueue' = Append(secondaryQueue, Head(secondaryQueue))
             /\ primaryQueue' = primaryQueue
       /\ (pc = "replay" /\ pc' = "idle" /\ crashes' = crashes) =>
             LET before == SubSeq(secondaryQueue, 1, Len(secondaryQueue) - 1) IN
             /\ before # <<>>
             /\ secondaryQueue[Len(secondaryQueue)] = Head(before)
             /\ obs' = <<"peekNext", fromBytes(Head(before))>>
             /\ secondaryQueue' = Tail(before) \o <<Head(before)>>
             /\ Len(secondaryQueue') = Len(before)
             /\ \A b \in Range(before) :
                   Cardinality({k \in 1..Len(before) : before[k] = b})
                      = Cardinality({k \in 1..Len(secondaryQueue') : secondaryQueue'[k] = b})
             /\ secondaryQueue'[Len(secondaryQueue')] = getBytes(obs'[2])
             /\ primaryQueue' = primaryQueue]_vars

\* The first item of a backlog of two or more has been replayed: it is at the
\* tail of secondary, which has the length it had.
C28_Witness ==
    /\ pc = "idle"
    /\ obs[1] = "peekNext"
    /\ secondaryQueueInitialCount >= 2
    /\ secondaryProcessedCount = 1
    /\ Len(secondaryQueue) = secondaryQueueInitialCount
    /\ secondaryQueue[Len(secondaryQueue)] = getBytes(obs[2])
    /\ secondaryQueue[1] # getBytes(obs[2])

\* A step of startDequeue: it is the call the consumer made last, and the step
\* is not an enqueue of the producer (which leaves the record of the
\* consumer's last call as it is).
StartDequeueStep == obs'[1] = "startDequeue" /\ enqueued' = enqueued

\* C29 (Spec): startDequeue sets secondaryQueueInitialCount to the size of
\* secondary and secondaryProcessedCount to 0, and changes neither queue, nor
\* the cleanup counter, nor anything else of the queue object.
C29_StartDequeue ==
    [][StartDequeueStep =>
          /\ secondaryQueueInitialCount' = Len(secondaryQueue)
          /\ secondaryProcessedCount' = 0
          /\ primaryQueue' = primaryQueue
          /\ secondaryQueue' = secondaryQueue
          /\ removeCount' = removeCount
          /\ gcCalls' = gcCalls
          /\ pc' = "idle"]_vars

\* startDequeue was called on the same queue object after a session that took
\* two items and was not ended: both are counted as backlog.
C29_Witness ==
    /\ obs = <<"startDequeue">>
    /\ removeCount = 2
    /\ Len(secondaryQueue) = 2
    /\ secondaryQueueInitialCount = 2
    /\ secondaryProcessedCount = 0
    /\ primaryQueue # <<>>

\* C30 (SpecScenario): for a consumer that follows the protocol, a counted
\* backlog item still to be replayed means that secondary holds an item; so
\* whenever isEmpty() is false between two calls, the queue that the next
\* peekNext reads (secondary if secondaryProcessedCount <
\* secondaryQueueInitialCount, else primary) is not empty.
C30_SourceNotEmpty ==
    /\ secondaryProcessedCount < secondaryQueueInitialCount => ~BQ_isEmpty(secondaryQueue)
    /\ (pc = "idle" /\ ~isEmpty) =>
          BQ_peek(IF secondaryProcessedCount < secondaryQueueInitialCount
                  THEN secondaryQueue ELSE primaryQueue) # NULL

\* isEmpty() returned false in the session after a crash, with primary empty
\* and one of the two backlog items replayed.
C30_Witness ==
    /\ obs = <<"isEmpty", FALSE>>
    /\ primaryQueue = <<>>
    /\ secondaryQueueInitialCount = 2
    /\ secondaryProcessedCount = 1
    /\ Len(secondaryQueue) = 2

\* C31 (SpecScenario): on the queue object made at the restart, isEmpty()
\* called before startDequeue returns true exactly when primary is empty,
\* whatever the crashed session left in secondary; called right after
\* startDequeue it returns true only if secondary is empty as well.
C31_IsEmptyBeforeStart ==
    /\ (phase = "down" /\ obs[1] = "isEmpty") => obs[2] = BQ_isEmpty(primaryQueue)
    /\ (phase = "second" /\ obs[1] = "isEmpty" /\ secondaryProcessedCount = 0) =>
          obs[2] = (BQ_isEmpty(primaryQueue) /\ BQ_isEmpty(secondaryQueue))

\* After the crash and before startDequeue, isEmpty() returned true while
\* secondary holds the two operations of the crashed session.
C31_Witness ==
    /\ phase = "down"
    /\ obs = <<"isEmpty", TRUE>>
    /\ Len(secondaryQueue) = 2
    /\ secondaryQueueInitialCount = 0

\* s rotated left by j positions.
RotateLeft(s, j) == [k \in 1..Len(s) |-> s[((k - 1 + j) % Len(s)) + 1]]

\* The backlog that the session after the crash found at its startDequeue:
\* the bytes of the operations returned before the crash, in that order.
BacklogAtStart == [k \in 1..Len(preCrash) |-> getBytes(preCrash[k])]

\* C32 (SpecRotate): in the session that replays a backlog, until its
\* endDequeue, the first secondaryQueueInitialCount items of secondary are the
\* backlog as startDequeue found it, rotated left by the number of completed
\* replay calls; after secondaryQueueInitialCount calls that is the original
\* order.  A crash in that session leaves secondary as it is, so the backlog
\* found after it is a rotation of the original one.
C32_ReplayRotation ==
    /\ [](phase = "second" /\ pc # "drain" =>
             /\ secondaryQueueInitialCount = Len(BacklogAtStart)
             /\ SubSeq(secondaryQueue, 1, secondaryQueueInitialCount)
                   = RotateLeft(BacklogAtStart,
                                Min(secondaryProcessedCount, secondaryQueueInitialCount)))
    /\ [](phase = "down2" =>
             \E j \in 0..Len(BacklogAtStart) :
                 SubSeq(secondaryQueue, 1, Len(BacklogAtStart)) = RotateLeft(BacklogAtStart, j))
    /\ [][phase' = "down2" => secondaryQueue' = secondaryQueue]_vars

\* The process crashed after one replay call of a backlog of three: the
\* backlog is now in the order 2, 3, 1.
C32_Witness ==
    /\ phase = "down2"
    /\ BacklogAtStart = <<getBytes(IndexOperation(1)), getBytes(IndexOperation(2)),
                          getBytes(IndexOperation(3))>>
    /\ secondaryQueue = <<getBytes(IndexOperation(2)), getBytes(IndexOperation(3)),
                          getBytes(IndexOperation(1))>>

\* C33 (SpecConcurrent): with no crash and one consumer that runs session
\* after session (startDequeue, any number of peekNext calls, endDequeue) while
\* enqueue calls interleave: the operations returned over all sessions are the
\* first operations in the order of enqueue, each once, and the others are
\* still in primary; every startDequeue finds secondary empty, so
\* secondaryQueueInitialCount is always 0; between two calls of a session
\* secondary holds exactly the operations returned in it; and secondary is
\* empty after every endDequeue.
C33_SessionsNoCrash ==
    /\ delivered = FirstOps(Len(delivered))
    /\ OpsOf(primaryQueue) = [k \in 1..Len(primaryQueue) |-> IndexOperation(Len(delivered) + k)]
    /\ Len(delivered) + Len(primaryQueue) = enqueued
    /\ secondaryQueueInitialCount = 0
    /\ phase = "out" => BQ_isEmpty(secondaryQueue)
    /\ (phase = "in" /\ pc = "idle") => OpsOf(secondaryQueue) = returned

\* The second session has ended: the first returned two operations, the
\* second the third, which was enqueued after the first session had begun.
C33_Witness ==
    /\ phase = "out"
    /\ obs[1] = "endDequeue"
    /\ delivered = FirstOps(3)
    /\ returned = <<IndexOperation(3)>>
    /\ secondaryQueue = <<>>

\* C34 (SpecAbandon): a session on a new queue returned k operations and was
\* abandoned by a second startDequeue on the same queue object, with no
\* endDequeue and no restart.  Then secondaryQueueInitialCount is k, the
\* peekNext calls of the new session return the same k operations in the same
\* order first, and no item leaves primary before they have all been returned.
C34_AbandonedSession ==
    phase = "again" =>
        /\ crashes = 0
        /\ secondaryQueueInitialCount = Len(preCrash)
        /\ removeCount = Len(preCrash) + Len(returned)
        /\ \A j \in 1..Min(Len(returned), Len(preCrash)) : returned[j] = preCrash[j]
        /\ Len(returned) <= Len(preCrash) =>
               OpsOf(primaryQueue) = [j \in 1..(enqueued - Len(preCrash)) |->
                                         IndexOperation(Len(preCrash) + j)]

\* Two operations were returned and the session abandoned; the new session on
\* the same object has returned them again and then the third, from primary.
C34_Witness ==
    /\ phase = "again"
    /\ preCrash = FirstOps(2)
    /\ returned = FirstOps(3)
    /\ removeCount = 5
    /\ crashes = 0

\* The step in which a peekNext ends with a decode failure.
DecodeFailStep == obs'[1] = "peekNext failed" /\ obs'[2] = "decode" /\ pc \in {"fresh", "replay"}

\* endDequeue has returned in a session in which a peekNext failed to decode:
\* the session made more peekNext calls that took an item than it returned
\* operations.
EndedAfterDecodeFailure ==
    /\ obs[1] = "endDequeue"
    /\ pc = "idle"
    /\ secondaryProcessedCount > Len(returned)

\* C35 (SpecCorrupt): a peekNext that fails to decode has moved the item
\* (fresh branch: from the head of primary to the tail of secondary; replay
\* branch: from the head of secondary to its tail) and has incremented
\* secondaryProcessedCount, and has left removeCount and the cleanup alone and
\* returned nothing; and once the following endDequeue has returned, the
\* undecodable item is erased.
C35_FailureNotNeutral ==
    /\ [][DecodeFailStep =>
             /\ ~Decodable(data)
             /\ secondaryProcessedCount' = secondaryProcessedCount + 1
             /\ removeCount' = removeCount
             /\ gcCalls' = gcCalls
             /\ returned' = returned
             /\ secondaryQueue'[Len(secondaryQueue')] = data
             /\ pc = "fresh" => primaryQueue' = Tail(primaryQueue) /\ secondaryQueue' = secondaryQueue
             /\ pc = "replay" => primaryQueue' = primaryQueue /\ secondaryQueue' = Tail(secondaryQueue)]_vars
    /\ [](EndedAfterDecodeFailure =>
             \A k \in 1..Len(secondaryQueue) : Decodable(secondaryQueue[k]))

\* C36 (SpecRoutingFaults): when the enqueue on the queue of one shard fails
\* inside put or delete, the caller gets the AnalyticsException of that
\* enqueue; every shard whose entry was handled before has its operation
\* enqueued and keeps it, and the failing shard and the shards whose entries
\* were not reached have their queues unchanged.
C36_NotAllOrNothing ==
    [][sobs'[1] \in {"put failed", "delete failed"} /\ faults' # faults =>
          LET recordsMap == sobs'[2]
              failing == sobs'[3]
              visited == sobs'[4] IN
          /\ thrown' = <<"AnalyticsException", "IOException", "enqueue">>
          /\ failing \in DOMAIN recordsMap /\ indexDataQueues[failing] # NoQueue
          /\ \A s \in Shards :
                IF s \in visited /\ indexDataQueues[s] # NoQueue
                THEN /\ Len(shardPrimary'[s]) = Len(shardPrimary[s]) + 1
                     /\ SubSeq(shardPrimary'[s], 1, Len(shardPrimary[s])) = shardPrimary[s]
                     /\ ItemsOf(deserializeObject(shardPrimary'[s][Len(shardPrimary'[s])]))
                           = recordsMap[s]
                ELSE shardPrimary'[s] = shardPrimary[s]]_vars

\* A put with entries for the shards 1 and 2 failed on the queue of shard 2
\* after the operation for shard 1 was enqueued: shard 1 has it, shard 2 has
\* nothing, and the caller got the error.
C36_Witness ==
    /\ sobs[1] = "put failed"
    /\ sobs[3] = 2
    /\ sobs[4] = {1}
    /\ Len(shardPrimary[1]) = 1
    /\ shardPrimary[2] = <<>>
    /\ indexDataQueues[1] # NoQueue
    /\ thrown = <<"AnalyticsException", "IOException", "enqueue">>

\* C37 (SpecLifecycle): between two calls of the store, the queue object that
\* the map gives for a shard, which is the one put and delete enqueue on and
\* getIndexDataQueue returns, has both its durable queues open: no lookup
\* reaches a queue that was closed.
C37_NoClosedQueueReached ==
    spc = "idle" =>
        \A s \in Shards :
            getIndexDataQueue(s) # NoQueue =>
                InstancesOf(s, getIndexDataQueue(s)) \subseteq openInstances

\* ---------------------------------------------------------------------------
\* The table form of the design view (TableForm.generatePropertiesForm).
\* A text is the sequence of its characters, so that trim(), indexOf(' '),
\* charAt(0) and the regular expressions are computed and not assumed.
\* ---------------------------------------------------------------------------

MaxAttributes == 3
\* Rows of the attribute list in a behaviour that clicks Submit.
MaxFormRows == 2

DEFAULT_STORE_TYPE == "in-memory"
Digits == {"0", "1", "2", "3", "4", "5", "6", "7", "8", "9"}
\* Constants.ALPHABETIC_VALIDATOR_REGEX, on the letters the inputs below use.
ALPHABETIC_VALIDATOR_REGEX == {"a", "b", "k", "s", "t", "u", "v", "x"}

RECURSIVE trimLeft(_)
trimLeft(s) == IF s # <<>> /\ Head(s) = " " THEN trimLeft(Tail(s)) ELSE s
RECURSIVE trimRight(_)
trimRight(s) ==
    IF s # <<>> /\ s[Len(s)] = " " THEN trimRight(SubSeq(s, 1, Len(s) - 1)) ELSE s
\* String.prototype.trim
trim(s) == trimRight(trimLeft(s))

\* validateName(id, type, name): TRUE when the name is rejected.
validateName(name) ==
    \/ \E k \in 1..Len(name) : name[k] = " "
    \/ Len(name) = 0
    \/ name[1] \notin ALPHABETIC_VALIDATOR_REGEX

AllDigits(s) == s # <<>> /\ \A k \in 1..Len(s) : s[k] \in Digits
Unsigned(s) == IF s # <<>> /\ s[1] \in {"-", "+"} THEN Tail(s) ELSE s
\* /^[-+]?\d+$/
intLongRegexMatch(s) == AllDigits(Unsigned(s))
\* /^[+-]?([0-9]*[.])?[0-9]+$/
doubleFloatRegexMatch(s) ==
    LET u == Unsigned(s)
    IN  \/ AllDigits(u)
        \/ \E k \in 1..Len(u) :
              /\ u[k] = "."
              /\ \A j \in 1..(k - 1) : u[j] \in Digits
              /\ AllDigits(SubSeq(u, k + 1, Len(u)))
UpperCase == <<"A", "B", "C", "D", "E", "F", "G", "H", "I", "J", "K", "L", "M",
               "N", "O", "P", "Q", "R", "S", "T", "U", "V", "W", "X", "Y", "Z">>
LowerCase == <<"a", "b", "c", "d", "e", "f", "g", "h", "i", "j", "k", "l", "m",
               "n", "o", "p", "q", "r", "s", "t", "u", "v", "w", "x", "y", "z">>
\* String.prototype.toLowerCase, on a sequence of characters.
toLowerCase(s) ==
    [k \in 1..Len(s) |->
        IF \E n \in 1..26 : UpperCase[n] = s[k]
        THEN LowerCase[CHOOSE n \in 1..26 : UpperCase[n] = s[k]]
        ELSE s[k]]

\* validateDataType(dataType, optionValue): TRUE when the value is not of the type.
validateDataType(dataType, optionValue) ==
    IF dataType \in {"INT", "LONG"} THEN ~intLongRegexMatch(optionValue)
    ELSE IF dataType \in {"DOUBLE", "FLOAT"} THEN ~doubleFloatRegexMatch(optionValue)
    ELSE IF dataType = "BOOL"
    THEN ~(toLowerCase(optionValue) \in {<<"f", "a", "l", "s", "e">>, <<"t", "r", "u", "e">>})
    ELSE FALSE

\* checkOptionValue(optionValue, predefinedOptionObject, parent): TRUE when valid.
checkOptionValue(optionValue, dataType) ==
    optionValue # <<>> /\ ~validateDataType(dataType, optionValue)

\* validateOptions(predefinedOptions) over the .option entries of #store-options.
validateOptions(options) ==
    \E k \in 1..Len(options) :
        /\ options[k].mandatory \/ options[k].checked
        /\ ~checkOptionValue(trim(options[k].value), options[k].type)

\* validateCustomizedOptions() over the .option entries of #customized-store-options.
validateCustomizedOptions(customized) ==
    \E k \in 1..Len(customized) :
        LET custOptName == trim(customized[k][1])
            custOptValue == trim(customized[k][2])
        IN  /\ custOptName # <<>> \/ custOptValue # <<>>
            /\ custOptName = <<>> \/ custOptValue = <<>>

TrimAll(texts) == [k \in 1..Len(texts) |-> trim(texts[k])]
NotBlank(text) == text # <<>>
ValidAttributeName(name) == name # <<>> /\ ~validateName(name)

\* validateAttributeNames(attributeNameList): its result, and the list it fills.
validateAttributeNames(attrNames) ==
    \E k \in 1..Len(attrNames) :
        trim(attrNames[k]) # <<>> /\ validateName(trim(attrNames[k]))
attributeNameList(attrNames) == SelectSeq(TrimAll(attrNames), ValidAttributeName)

\* validateAnnotations() over the .table-annotation entries.
validateAnnotations(annotations) ==
    \E k \in 1..Len(annotations) :
        /\ annotations[k].checked
        /\ SelectSeq(TrimAll(annotations[k].values), NotBlank) = <<>>

MapPut(map, key, value) == {p \in map : p[1] # key} \cup {<<key, value>>}

\* buildOptions(selectedOptions)
RECURSIVE buildOptions(_, _)
buildOptions(options, selectedOptions) ==
    IF options = <<>> THEN selectedOptions
    ELSE LET option == Head(options)
         IN  buildOptions(Tail(options),
                 IF option.mandatory \/ option.checked
                 THEN MapPut(selectedOptions, option.name, trim(option.value))
                 ELSE selectedOptions)

\* buildCustomizedOption(selectedOptions)
RECURSIVE buildCustomizedOption(_, _)
buildCustomizedOption(customized, selectedOptions) ==
    IF customized = <<>> THEN selectedOptions
    ELSE LET custOptName == trim(Head(customized)[1])
             custOptValue == trim(Head(customized)[2])
         IN  buildCustomizedOption(Tail(customized),
                 IF custOptName # <<>> /\ custOptValue # <<>>
                 THEN MapPut(selectedOptions, custOptName, custOptValue)
                 ELSE selectedOptions)

Checked(annotation) == annotation.checked
\* buildAnnotations(annotationList, annotationObjectList): the strings and the
\* objects it pushes, one of each per checked annotation.
buildAnnotations_strings(annotations) ==
    LET sel == SelectSeq(annotations, Checked)
    IN  [k \in 1..Len(sel) |->
            <<"string", sel[k].name, SelectSeq(TrimAll(sel[k].values), NotBlank)>>]
buildAnnotations_objects(annotations) ==
    LET sel == SelectSeq(annotations, Checked)
    IN  [k \in 1..Len(sel) |->
            <<"object", Tail(sel[k].name), SelectSeq(TrimAll(sel[k].values), NotBlank)>>]

HasChildren(node) == node.children # <<>>
\* buildUserAnnotations(annotationStringList, annotationObjectList): for every
\* node of the jstree that has children, the string built in the closure
\* variable `annotation` ("" before and after each node) and the annotation
\* object, pushed to the two lists.
buildUserAnnotations_strings(nodes) ==
    LET sel == SelectSeq(nodes, HasChildren)
    IN  [k \in 1..Len(sel) |-> <<"string", <<"@">> \o trim(sel[k].text), sel[k].children>>]
buildUserAnnotations_objects(nodes) ==
    LET sel == SelectSeq(nodes, HasChildren)
    IN  [k \in 1..Len(sel) |-> <<"object", trim(sel[k].text), sel[k].children>>]

NavAll == <<"reorder-up", "reorder-down", "btn-del-attr">>
RemoveAt(s, k) == SubSeq(s, 1, k - 1) \o SubSeq(s, k + 1, Len(s))
InNav(nav, control) == \E k \in 1..Len(nav) : nav[k] = control

changeAttributeNavigation_allControls(attrLength) ==
    [k \in 1..attrLength |-> NavAll]

\* changeAttributeNavigation(): the anchors of each row, for attrLength rows.
changeAttributeNavigation(attrLength) ==
    [k \in 1..attrLength |->
        IF attrLength = 1 THEN <<>>
        ELSE IF attrLength = 2
        THEN IF k = 1 THEN <<"reorder-down", "btn-del-attr">>
             ELSE <<"reorder-up", "btn-del-attr">>
        ELSE IF k = 1 THEN RemoveAt(NavAll, 0 + 1)
        ELSE IF k = attrLength THEN RemoveAt(NavAll, 1 + 1)
        ELSE NavAll]

\* What the user can have typed or selected in the form when Submit is clicked.
TableNameInputs ==
    {<<>>, <<"t">>, <<" ", "s">>, <<"u">>, <<"1", "t">>, <<"t", " ", "t">>}
AttrNameInputs == {<<>>, <<"a">>, <<"1", "a", " ">>}
\* The values of the options of the select .attr-type, in the order of the markup.
AttrTypeOptions ==
    <<<<"s", "t", "r", "i", "n", "g">>, <<"i", "n", "t">>, <<"l", "o", "n", "g">>,
      <<"f", "l", "o", "a", "t">>, <<"d", "o", "u", "b", "l", "e">>, <<"b", "o", "o", "l">>,
      <<"o", "b", "j", "e", "c", "t">>>>
\* The options the user picks.
AttrTypeInputs == {AttrTypeOptions[1], AttrTypeOptions[2]}
\* The types of the attributes of a table that was saved before the form opens.
SavedTypeInputs == {<<"s", "t", "r", "i", "n", "g">>, <<"I", "N", "T">>}
\* formUtils.isDefinitionElementNameUsed: the names other definition elements have.
UsedNames == {<<"u">>}
StoreOption(mandatory, checked, value) ==
    [name |-> <<"o">>, mandatory |-> mandatory, checked |-> checked,
     value |-> value, type |-> "INT"]
StoreInputs ==
    {[type |-> DEFAULT_STORE_TYPE, options |-> <<>>, customized |-> <<>>],
     [type |-> "rdbms", options |-> <<StoreOption(TRUE, FALSE, <<>>)>>, customized |-> <<>>],
     [type |-> "rdbms", options |-> <<StoreOption(FALSE, TRUE, <<"a">>)>>, customized |-> <<>>],
     [type |-> "rdbms", options |-> <<StoreOption(TRUE, FALSE, <<" ", "1">>)>>,
      customized |-> <<<<<<"k">>, <<>>>>>>],
     [type |-> "rdbms", options |-> <<StoreOption(TRUE, FALSE, <<"1">>)>>,
      customized |-> <<<<<<"k">>, <<"v">>>>>>]}
AnnotationInputs ==
    {<<[name |-> <<"@", "p">>, checked |-> FALSE, values |-> <<<<>>>>]>>,
     <<[name |-> <<"@", "p">>, checked |-> TRUE, values |-> <<<<" ">>>>]>>,
     <<[name |-> <<"@", "p">>, checked |-> TRUE, values |-> <<<<"x">>, <<>>>>]>>}
UserAnnotationInputs ==
    {<<>>, <<[text |-> <<"i">>, children |-> <<<<"k", "v">>>>]>>}

\* The form as a whole at a click on Submit: every section varied on its own
\* with the others left as a new form shows them, and more than one filled in.
FormDefault ==
    [tableName |-> <<"t">>,
     store |-> [type |-> DEFAULT_STORE_TYPE, options |-> <<>>, customized |-> <<>>],
     annotations |-> <<[name |-> <<"@", "p">>, checked |-> FALSE, values |-> <<<<>>>>]>>,
     nodes |-> <<>>]
Deviations(input) ==
    Cardinality({f \in {"tableName", "store", "annotations", "nodes"} :
                    input[f] # FormDefault[f]})
FormInputs ==
    {input \in [tableName : TableNameInputs, store : StoreInputs,
                annotations : AnnotationInputs, nodes : UserAnnotationInputs] :
        \/ Deviations(input) <= 1
        \/ /\ input.tableName \in {<<>>, <<" ", "s">>}
           /\ input.store.type # DEFAULT_STORE_TYPE
           /\ ~validateOptions(input.store.options)
           /\ ~validateCustomizedOptions(input.store.customized)
           /\ input.annotations[1].checked
           /\ ~validateAnnotations(input.annotations)
           /\ input.nodes # <<>>}

nonFormVars == <<coreVars, scriptVars, consumerVars, refreshVars, storeVars, faultVars>>

\* A new table element on the canvas, its form not yet opened.
TableFormInit ==
    /\ primaryQueue = <<>>
    /\ secondaryQueue = <<>>
    /\ secondaryQueueInitialCount = 0
    /\ secondaryProcessedCount = 0
    /\ removeCount = 0
    /\ gcCalls = <<0, 0>>
    /\ pc = "idle"
    /\ data = NULL
    /\ i = 0
    /\ count = 0
    /\ loaded = 0
    /\ enqueued = 0
    /\ returned = <<>>
    /\ unremoved = 0
    /\ active = FALSE
    /\ crashes = 0
    /\ obs = <<"none">>
    /\ phase = "free"
    /\ preCrash = <<>>
    /\ NoStore
    /\ clickedElement = <<<<>>, <<"undefined", {}>>, <<>>, <<>>, <<>>>>
    /\ attributeDiv = <<>>
    /\ attrNav = <<>>
    /\ formOpen = FALSE
    /\ disableContainer = FALSE
    /\ fobs = <<"none", "">>

AttrNameValues(rows) == [k \in 1..Len(rows) |-> rows[k][1]]

\* The option of .attr-type that is selected in the row rendered for a saved
\* attribute: the one whose value is the saved type in lower case, and the
\* first option when there is none.
selectedAttrType(savedType) ==
    IF \E n \in 1..Len(AttrTypeOptions) : AttrTypeOptions[n] = toLowerCase(savedType)
    THEN toLowerCase(savedType)
    ELSE AttrTypeOptions[1]

\* generatePropertiesForm up to its event listeners: the form is rendered from
\* the table model and the design view is disabled.  A table without a name
\* gets the one row { name: "", type: "string" }; a saved table gets a row per
\* saved attribute, the navigation controls, and its types selected.
generatePropertiesForm ==
    /\ ~formOpen
    /\ formOpen' = TRUE
    /\ disableContainer' = TRUE
    /\ attributeDiv' = IF clickedElement[1] = <<>> THEN <<<<<<>>, AttrTypeOptions[1]>>>>
                       ELSE [k \in 1..Len(clickedElement[3]) |->
                                <<clickedElement[3][k][1],
                                  selectedAttrType(clickedElement[3][k][2])>>]
    /\ attrNav' = IF clickedElement[1] = <<>> THEN <<<<>>>>
                  ELSE changeAttributeNavigation(Len(clickedElement[3]))
    /\ fobs' = <<"open", "">>
    /\ UNCHANGED clickedElement

\* click on #btn-add-attribute: a row with an empty name, its first type
\* option selected.
addAttribute ==
    /\ formOpen
    /\ attributeDiv' = Append(attributeDiv, <<<<>>, AttrTypeOptions[1]>>)
    /\ attrNav' = changeAttributeNavigation(Len(attributeDiv'))
    /\ fobs' = <<"add", "">>
    /\ UNCHANGED <<clickedElement, formOpen, disableContainer>>

\* click on the .btn-del-attr of row k
deleteAttribute(k) ==
    /\ formOpen
    /\ k \in 1..Len(attributeDiv)
    /\ InNav(attrNav[k], "btn-del-attr")
    /\ attributeDiv' = RemoveAt(attributeDiv, k)
    /\ attrNav' = changeAttributeNavigation(Len(attributeDiv'))
    /\ fobs' = <<"delete", "">>
    /\ UNCHANGED <<clickedElement, formOpen, disableContainer>>

\* click on the .reorder-up of row k
reorderUp(k) ==
    /\ formOpen
    /\ k \in 1..Len(attributeDiv)
    /\ InNav(attrNav[k], "reorder-up")
    /\ attributeDiv' = IF k > 1
                       THEN [attributeDiv EXCEPT ![k - 1] = attributeDiv[k],
                                                 ![k] = attributeDiv[k - 1]]
                       ELSE attributeDiv
    /\ attrNav' = changeAttributeNavigation(Len(attributeDiv'))
    /\ fobs' = <<"reorder-up", "">>
    /\ UNCHANGED <<clickedElement, formOpen, disableContainer>>

\* click on the .reorder-down of row k
reorderDown(k) ==
    /\ formOpen
    /\ k \in 1..Len(attributeDiv)
    /\ InNav(attrNav[k], "reorder-down")
    /\ attributeDiv' = IF k < Len(attributeDiv)
                       THEN [attributeDiv EXCEPT ![k + 1] = attributeDiv[k],
                                                 ![k] = attributeDiv[k + 1]]
                       ELSE attributeDiv
    /\ attrNav' = changeAttributeNavigation(Len(attributeDiv'))
    /\ fobs' = <<"reorder-down", "">>
    /\ UNCHANGED <<clickedElement, formOpen, disableContainer>>

\* the user types a name into the .attr-name of row k
typeAttrName(k, name) ==
    /\ formOpen
    /\ k \in 1..Len(attributeDiv)
    /\ attributeDiv' = [attributeDiv EXCEPT ![k] = <<name, @[2]>>]
    /\ fobs' = <<"input", "">>
    /\ UNCHANGED <<clickedElement, attrNav, formOpen, disableContainer>>

\* the user picks an option of the .attr-type of row k
selectAttrType(k, type) ==
    /\ formOpen
    /\ k \in 1..Len(attributeDiv)
    /\ \E n \in 1..Len(AttrTypeOptions) : AttrTypeOptions[n] = type
    /\ attributeDiv' = [attributeDiv EXCEPT ![k] = <<@[1], type>>]
    /\ fobs' = <<"select", "">>
    /\ UNCHANGED <<clickedElement, attrNav, formOpen, disableContainer>>

\* The validations of the submit handler, in its order: the first that fails,
\* or "" when none does.
submit_validation(tableNameValue, store, annotations) ==
    LET tableName == trim(tableNameValue)
        previouslySavedName == clickedElement[1]
    IN  IF tableName = <<>> THEN "Table name is required."
        ELSE IF previouslySavedName # tableName /\ tableName \in UsedNames
        THEN "Table name is already used."
        ELSE IF previouslySavedName # tableName /\ validateName(tableName)
        THEN "validateName"
        ELSE IF store.type # DEFAULT_STORE_TYPE /\ validateOptions(store.options)
        THEN "validateOptions"
        ELSE IF store.type # DEFAULT_STORE_TYPE /\ validateCustomizedOptions(store.customized)
        THEN "validateCustomizedOptions"
        ELSE IF validateAttributeNames(AttrNameValues(attributeDiv))
        THEN "validateAttributeNames"
        ELSE IF attributeNameList(AttrNameValues(attributeDiv)) = <<>>
        THEN "Minimum one attribute is required."
        ELSE IF validateAnnotations(annotations) THEN "validateAnnotations"
        ELSE ""

NamedRow(row) == trim(row[1]) # <<>>
\* The attributes the submit handler adds: for each row with a name, the
\* trimmed value of .attr-name and the value of .attr-type.
submit_attributes ==
    LET rows == SelectSeq(attributeDiv, NamedRow)
    IN  [k \in 1..Len(rows) |-> <<trim(rows[k][1]), rows[k][2]>>]

submit_clickedElement_nameFirst(input, error) ==
    IF error \in {"Table name is required.", "Table name is already used.", "validateName"}
    THEN clickedElement
    ELSE <<trim(input.tableName), clickedElement[2], clickedElement[3],
           clickedElement[4], clickedElement[5]>>

\* The table model the submit handler leaves, given the outcome of its validations.
submit_clickedElement(input, error) ==
    IF error # "" THEN clickedElement
    ELSE <<trim(input.tableName),
           IF input.store.type # DEFAULT_STORE_TYPE
           THEN <<input.store.type,
                  buildCustomizedOption(input.store.customized,
                                        buildOptions(input.store.options, {}))>>
           ELSE <<"undefined", {}>>,
           submit_attributes,
           buildAnnotations_strings(input.annotations)
               \o buildUserAnnotations_strings(input.nodes),
           buildAnnotations_objects(input.annotations)
               \o buildUserAnnotations_objects(input.nodes)>>

\* click on #btn-submit
submit(input) ==
    LET error == submit_validation(input.tableName, input.store, input.annotations)
        closes == error = ""
    IN  /\ formOpen
        /\ clickedElement' = submit_clickedElement(input, error)
        /\ fobs' = <<"submit", IF closes THEN "ok" ELSE error>>
        /\ formOpen' = ~closes
        /\ disableContainer' = IF closes THEN FALSE ELSE disableContainer
        /\ attributeDiv' = IF closes THEN <<>> ELSE attributeDiv
        /\ attrNav' = IF closes THEN <<>> ELSE attrNav

\* click on #btn-cancel
cancel ==
    /\ formOpen
    /\ disableContainer' = FALSE
    /\ formOpen' = FALSE
    /\ attributeDiv' = <<>>
    /\ attrNav' = <<>>
    /\ fobs' = <<"cancel", "">>
    /\ UNCHANGED clickedElement

TableFormNext ==
    \/ generatePropertiesForm /\ UNCHANGED nonFormVars
    \/ Len(attributeDiv) < MaxFormRows /\ addAttribute /\ UNCHANGED nonFormVars
    \/ \E k \in 1..MaxFormRows : deleteAttribute(k) /\ UNCHANGED nonFormVars
    \/ \E k \in 1..MaxFormRows : reorderUp(k) /\ UNCHANGED nonFormVars
    \/ \E k \in 1..MaxFormRows : reorderDown(k) /\ UNCHANGED nonFormVars
    \/ \E k \in 1..MaxFormRows, name \in AttrNameInputs :
          typeAttrName(k, name) /\ UNCHANGED nonFormVars
    \/ \E k \in 1..MaxFormRows, type \in AttrTypeInputs :
          selectAttrType(k, type) /\ UNCHANGED nonFormVars
    \/ \E input \in FormInputs : submit(input) /\ UNCHANGED nonFormVars
    \/ cancel /\ UNCHANGED nonFormVars

SpecTableForm == TableFormInit /\ [][TableFormNext]_vars

\* SpecAttributes: the attribute list of the form on its own.  The table is new
\* or was saved with one to MaxAttributes attributes; the form is opened, rows
\* are added, deleted, moved and filled in, and the form is cancelled and opened
\* again.
SavedTables ==
    {<<<<"t">>, <<"undefined", {}>>, attrs, <<>>, <<>>>> :
        attrs \in UNION {[1..n -> {<<<<"a">>, type>> : type \in SavedTypeInputs}] :
                            n \in 1..MaxAttributes}}

AttributesInit ==
    /\ primaryQueue = <<>>
    /\ secondaryQueue = <<>>
    /\ secondaryQueueInitialCount = 0
    /\ secondaryProcessedCount = 0
    /\ removeCount = 0
    /\ gcCalls = <<0, 0>>
    /\ pc = "idle"
    /\ data = NULL
    /\ i = 0
    /\ count = 0
    /\ loaded = 0
    /\ enqueued = 0
    /\ returned = <<>>
    /\ unremoved = 0
    /\ active = FALSE
    /\ crashes = 0
    /\ obs = <<"none">>
    /\ phase = "free"
    /\ preCrash = <<>>
    /\ NoStore
    /\ clickedElement \in {<<<<>>, <<"undefined", {}>>, <<>>, <<>>, <<>>>>} \cup SavedTables
    /\ attributeDiv = <<>>
    /\ attrNav = <<>>
    /\ formOpen = FALSE
    /\ disableContainer = FALSE
    /\ fobs = <<"none", "">>

AttributesNext ==
    \/ generatePropertiesForm /\ UNCHANGED nonFormVars
    \/ Len(attributeDiv) < MaxAttributes /\ addAttribute /\ UNCHANGED nonFormVars
    \/ \E k \in 1..MaxAttributes : deleteAttribute(k) /\ UNCHANGED nonFormVars
    \/ \E k \in 1..MaxAttributes : reorderUp(k) /\ UNCHANGED nonFormVars
    \/ \E k \in 1..MaxAttributes : reorderDown(k) /\ UNCHANGED nonFormVars
    \/ \E k \in 1..MaxAttributes, name \in AttrNameInputs :
          typeAttrName(k, name) /\ UNCHANGED nonFormVars
    \/ \E k \in 1..MaxAttributes, type \in AttrTypeInputs :
          selectAttrType(k, type) /\ UNCHANGED nonFormVars
    \/ cancel /\ UNCHANGED nonFormVars

SpecAttributes == AttributesInit /\ [][AttributesNext]_vars

ValidationErrors ==
    {"Table name is required.", "Table name is already used.", "validateName",
     "validateOptions", "validateCustomizedOptions", "validateAttributeNames",
     "Minimum one attribute is required.", "validateAnnotations"}

\* C38 (SpecTableForm): a click on Submit in which a validation fails (empty
\* name, name already used, invalid name, store options, customized options,
\* attribute names, no attribute, annotation values) leaves the table model
\* (name, store, attribute list, both annotation lists) as it was, the form
\* open with its rows, and the design view disabled.
C38_ValidationBeforeChange ==
    [][(fobs'[1] = "submit" /\ fobs'[2] \in ValidationErrors) =>
          /\ clickedElement' = clickedElement
          /\ formOpen' /\ formOpen
          /\ disableContainer' /\ disableContainer
          /\ attributeDiv' = attributeDiv
          /\ attrNav' = attrNav]_vars

\* A table that has already been saved is opened again, and a submit with a new
\* valid name and a store fails at the last validation, the annotation values.
C38_Witness ==
    /\ fobs = <<"submit", "validateAnnotations">>
    /\ clickedElement[1] # <<>>
    /\ clickedElement[3] # <<>>
    /\ formOpen
    /\ disableContainer

\* C39 (SpecAttributes): while the form is open, whatever was clicked, the
\* attribute list has a row, its first row has no reorder-up control, its last
\* row no reorder-down control, and a sole row no delete control.
C39_AttributeNavigation ==
    formOpen =>
        /\ Len(attributeDiv) >= 1
        /\ Len(attrNav) = Len(attributeDiv)
        /\ ~InNav(attrNav[1], "reorder-up")
        /\ ~InNav(attrNav[Len(attrNav)], "reorder-down")
        /\ (Len(attributeDiv) = 1 => ~InNav(attrNav[1], "btn-del-attr"))

\* Rows were deleted down to the last one.
C39_Witness ==
    /\ formOpen
    /\ fobs = <<"delete", "">>
    /\ Len(attributeDiv) = 1
    /\ attrNav = <<<<>>>>

\* Three rows after a reorder: the middle row has all three controls, the
\* first and the last have lost one each.
C39_WitnessThreeRows ==
    /\ formOpen
    /\ fobs[1] \in {"reorder-up", "reorder-down"}
    /\ Len(attributeDiv) = 3
    /\ attrNav = <<<<"reorder-down", "btn-del-attr">>, NavAll, <<"reorder-up", "btn-del-attr">>>>

====
